---- MODULE Spec2Model ----
(***************************************************************************)
(* A model of the debug API layer of the Cloud SDK                         *)
(* (lib/googlecloudsdk/api_lib/debug/debug.py): the log-expression codec   *)
(* (SplitLogExpressions, MergeLogExpressions) and the debuggee resolver    *)
(* (_FindLatestMinorVersion, Debugger.DefaultDebuggee).                    *)
(*                                                                         *)
(* Python strings are sequences of one-character strings, so that the      *)
(* scans, the decimal formatting of an index and its parsing are computed  *)
(* and not assumed.                                                        *)
(***************************************************************************)
EXTENDS Integers, Sequences, FiniteSets, TLC

VARIABLES
  entry,               \* which function the run enters: "Split" or "Merge"
  pc,                  \* where the run is
  format_string,       \* SplitLogExpressions: the argument
  idx,                 \* SplitLogExpressions: characters consumed by the for loop
  expressions,         \* SplitLogExpressions local / MergeLogExpressions argument
  log_format,          \* SplitLogExpressions local / MergeLogExpressions argument
  current_expression,  \* SplitLogExpressions local
  brace_count,         \* SplitLogExpressions local
  need_separator,      \* SplitLogExpressions local
  substituted,         \* MergeLogExpressions: the value of re.sub(...)
  merged,              \* MergeLogExpressions: the value of .format(...)
  raised,              \* the class of the exception raised, "" when none
  response,            \* the debuggee messages the service lists
  debuggees,           \* the Debuggee objects built from the listing
  rpc,                 \* where the resolver run is
  outcome,             \* what the resolver call returned or raised
  pattern,             \* FindDebuggee: the argument ('' when there is none)
  all_debuggees,       \* FindDebuggee local: what ListDebuggees returned
  location_regexp_or_ids, \* ListMatchingBreakpoints: the strings asked for
  ids,                 \* ListMatchingBreakpoints local: the exact IDs
  patterns,            \* ListMatchingBreakpoints local: the location patterns
  include_inactive,    \* ListMatchingBreakpoints: the argument
  restrict_to_type,    \* ListMatchingBreakpoints: the argument (<<>> for None)
  result,              \* ListMatchingBreakpoints local: the breakpoints kept
  location,            \* CreateSnapshot, CreateLogpoint: the argument
  log_format_string,   \* CreateLogpoint: the argument
  log_level,           \* CreateLogpoint: the argument (<<>> for None)
  breakpoint_id,       \* WaitForBreakpoint: the argument
  timeout,             \* WaitForBreakpoint: the argument (<<>> for None)
  time_passed_ms,      \* WaitForBreakpoint: the time since the retryer started
  server,              \* the breakpoints the debug service holds for the debuggee
  calls,               \* the remote calls issued, in order
  returned,            \* what the service call returned or raised
  svc,                 \* where the breakpoint service call is
  handles,             \* per class, the client attributes set on the class itself
  objects,             \* the classes of which an instance was constructed
  project_id_to_number_cache,  \* DebugObject._project_id_to_number_cache
  project_number_to_id_cache,  \* DebugObject._project_number_to_id_cache
  argument             \* the argument of the last call on a class (<<>> for none)

codecVars == <<entry, pc, format_string, idx, expressions, log_format,
               current_expression, brace_count, need_separator,
               substituted, merged, raised>>

resolverVars == <<response, debuggees, rpc, outcome, pattern, all_debuggees>>

listVars == <<location_regexp_or_ids, ids, patterns, include_inactive,
              restrict_to_type, result>>

createVars == <<location, log_format_string, log_level>>

waitVars == <<breakpoint_id, timeout, time_passed_ms>>

remoteVars == <<server, calls, returned>>

serviceVars == <<listVars, createVars, waitVars, remoteVars, svc>>

classVars == <<handles, objects, project_id_to_number_cache,
               project_number_to_id_cache, argument>>

vars == <<codecVars, resolverVars, serviceVars, classVars>>

----------------------------------------------------------------------------
(* Bounds of the model.                                                    *)

\* Longest format string given to SplitLogExpressions.
MaxLen == 5

\* Longest encoded format given directly to MergeLogExpressions.
MaxFmtLen == 3

\* Most debuggees the service lists.
MaxDebuggees == 3

----------------------------------------------------------------------------
(* Characters and decimal numerals.                                        *)

DigitSeq == <<"0", "1", "2", "3", "4", "5", "6", "7", "8", "9">>

Digits == {DigitSeq[i] : i \in 1..10}

\* str.isdigit() on one character.
IsDigit(c) == c \in Digits

DigitVal(c) == (CHOOSE i \in 1..10 : DigitSeq[i] = c) - 1

\* '{0}'.format(i) for a non-negative integer: its decimal numeral.
RECURSIVE IntToStr(_)
IntToStr(n) ==
  IF n < 10 THEN <<DigitSeq[n + 1]>>
  ELSE IntToStr(n \div 10) \o <<DigitSeq[(n % 10) + 1]>>

\* int(s) for a string of decimal digits.
RECURSIVE StrToInt(_)
StrToInt(s) ==
  IF s = <<>> THEN 0
  ELSE 10 * StrToInt(SubSeq(s, 1, Len(s) - 1)) + DigitVal(s[Len(s)])

\* All sequences over S of length at most n.
SeqsUpTo(S, n) == UNION {[1..k -> S] : k \in 0..n}

\* The characters format strings are drawn from.
Alphabet == {"{", "}", "$", "a", "0", " "}

\* The characters encoded formats given directly to Merge are drawn from.
FmtAlphabet == {"{", "}", "$", "a", "0", "1"}

\* The expression lists given directly to Merge: none, one plain expression,
\* and a plain one followed by one whose own text contains braces.
ExprLists == { <<>>, << <<"a">> >>, << <<"a">>, <<"{", "0", "}">> >> }

----------------------------------------------------------------------------
(* SplitLogExpressions (debug.py 41-105).                                  *)

\* `current_expression in expressions`
InList(e, exprs) == \E i \in 1..Len(exprs) : exprs[i] = e

\* `expressions.index(current_expression)`: the first position, from 0.
ListIndex(e, exprs) ==
  (CHOOSE i \in 1..Len(exprs) :
      exprs[i] = e /\ \A j \in 1..(i - 1) : exprs[j] # e) - 1

\* Mutant of ExpressionIndex: every occurrence gets a fresh index.
ExpressionIndexFresh(e, exprs) == Len(exprs)

\* Lines 86-89: the index given to a finished expression.
ExpressionIndex(e, exprs) ==
  IF InList(e, exprs) THEN ListIndex(e, exprs) ELSE Len(exprs)

\* Lines 88-90: the expression list after a finished expression.
ExpressionsAfter(e, exprs) ==
  IF InList(e, exprs) THEN exprs ELSE Append(exprs, e)

\* Mutant of Separator: the separator is added before any character.
SeparatorAlways(need, c) == IF need THEN <<" ">> ELSE <<>>

\* Lines 66-67: what is added before character c is looked at.
Separator(need, c) == IF need /\ IsDigit(c) THEN <<" ">> ELSE <<>>

\* Line 91: '${0}'.format(i)
EncodedIndex(i) == <<"$">> \o IntToStr(i)

\* Mutant of Unbalanced: an unclosed brace is let through.
UnbalancedNever(count) == FALSE

\* Line 102: `if brace_count:` after the loop.
Unbalanced(count) == count # 0

\* One iteration of the for loop (lines 65-101).
ScanChar ==
  /\ pc = "split"
  /\ idx < Len(format_string)
  /\ LET c == format_string[idx + 1]
         lf == log_format \o Separator(need_separator, c)
     IN
       /\ idx' = idx + 1
       /\ IF c = "{" THEN
            /\ current_expression' =
                 IF brace_count # 0 THEN Append(current_expression, c) ELSE <<>>
            /\ brace_count' = brace_count + 1
            /\ log_format' = lf
            /\ need_separator' = FALSE
            /\ UNCHANGED expressions
          ELSE IF brace_count # 0 THEN
            IF c # "}" THEN
              /\ current_expression' = Append(current_expression, c)
              /\ log_format' = lf
              /\ need_separator' = FALSE
              /\ UNCHANGED <<brace_count, expressions>>
            ELSE IF brace_count - 1 = 0 THEN
              /\ brace_count' = 0
              /\ expressions' = ExpressionsAfter(current_expression, expressions)
              /\ log_format' =
                   lf \o EncodedIndex(ExpressionIndex(current_expression, expressions))
              /\ need_separator' = TRUE
              /\ UNCHANGED current_expression
            ELSE
              /\ brace_count' = brace_count - 1
              /\ current_expression' = Append(current_expression, c)
              /\ log_format' = lf
              /\ need_separator' = FALSE
              /\ UNCHANGED expressions
          ELSE
            /\ log_format' = Append(lf, c)
            /\ need_separator' = FALSE
            /\ UNCHANGED <<brace_count, current_expression, expressions>>
  /\ UNCHANGED <<entry, pc, format_string, substituted, merged, raised>>
  /\ UNCHANGED <<resolverVars, serviceVars, classVars>>

\* After the loop (lines 102-105): raise ValueError or return.
ScanEnd ==
  /\ pc = "split"
  /\ idx = Len(format_string)
  /\ pc' = IF Unbalanced(brace_count) THEN "split_raised" ELSE "split_returned"
  /\ raised' = IF Unbalanced(brace_count) THEN "ValueError" ELSE ""
  /\ UNCHANGED <<entry, format_string, idx, expressions, log_format,
                 current_expression, brace_count, need_separator,
                 substituted, merged>>
  /\ UNCHANGED <<resolverVars, serviceVars, classVars>>

InitSplit ==
  /\ entry = "Split"
  /\ pc = "split"
  /\ format_string \in SeqsUpTo(Alphabet, MaxLen)
  /\ idx = 0
  /\ expressions = <<>>
  /\ log_format = <<>>
  /\ current_expression = <<>>
  /\ brace_count = 0
  /\ need_separator = FALSE
  /\ substituted = <<>>
  /\ merged = <<>>
  /\ raised = ""

----------------------------------------------------------------------------
(* MergeLogExpressions (debug.py 108-123):                                 *)
(*   re.sub(r'\$([0-9]+)', r'{{{\1}}}', log_format).format of the expressions   *)

\* The last position of the run of digits that starts at position i.
DigitRunEnd(s, i) ==
  CHOOSE j \in i..Len(s) :
    /\ \A k \in i..j : IsDigit(s[k])
    /\ (j = Len(s) \/ ~IsDigit(s[j + 1]))

\* re.sub(r'\$([0-9]+)', r'{{{\1}}}', s) from position i on: each '$' that a
\* digit follows is replaced, with its whole run of digits N, by '{{{N}}}'.
RECURSIVE ReSubFrom(_, _)
ReSubFrom(s, i) ==
  IF i > Len(s) THEN <<>>
  ELSE IF s[i] = "$" /\ i < Len(s) /\ IsDigit(s[i + 1]) THEN
    LET j == DigitRunEnd(s, i + 1)
    IN <<"{", "{", "{">> \o SubSeq(s, i + 1, j) \o <<"}", "}", "}">>
         \o ReSubFrom(s, j + 1)
  ELSE <<s[i]>> \o ReSubFrom(s, i + 1)

ReSub(s) == ReSubFrom(s, 1)

\* str.format's scan for the '}' that closes a replacement field: nested
\* braces are counted; 0 when the string ends first.
RECURSIVE FieldEndFrom(_, _, _)
FieldEndFrom(fs, q, count) ==
  IF q > Len(fs) THEN 0
  ELSE IF fs[q] = "{" THEN FieldEndFrom(fs, q + 1, count + 1)
  ELSE IF fs[q] = "}" THEN
    IF count - 1 <= 0 THEN q ELSE FieldEndFrom(fs, q + 1, count - 1)
  ELSE FieldEndFrom(fs, q + 1, count)

Raise(cls) == [exc |-> cls, val |-> <<>>]

Emit(text, rest) ==
  IF rest.exc # "" THEN rest ELSE [rest EXCEPT !.val = text \o @]

IsNumeral(f) == f # <<>> /\ \A k \in 1..Len(f) : IsDigit(f[k])

\* str.format over args from position p on, with no keyword arguments and
\* string arguments. numbering is "init", "auto" or "manual"; n is the next
\* automatic field number. '{{' and '}}' are escapes, a single '}' and an
\* unclosed '{' are ValueErrors, '{}' numbers automatically, '{N}' takes
\* args[N], any other field name is a keyword (KeyError), and automatic and
\* manual numbering do not mix.
RECURSIVE FormatFrom(_, _, _, _, _)
FormatFrom(fs, p, args, numbering, n) ==
  IF p > Len(fs) THEN [exc |-> "", val |-> <<>>]
  ELSE IF fs[p] \notin {"{", "}"} THEN
    Emit(<<fs[p]>>, FormatFrom(fs, p + 1, args, numbering, n))
  ELSE IF fs[p] = "}" /\ (p = Len(fs) \/ fs[p + 1] # "}") THEN
    Raise("ValueError")
  ELSE IF p = Len(fs) THEN
    Raise("ValueError")
  ELSE IF fs[p + 1] = fs[p] THEN
    Emit(<<fs[p]>>, FormatFrom(fs, p + 2, args, numbering, n))
  ELSE
    LET e == FieldEndFrom(fs, p + 1, 1)
        f == SubSeq(fs, p + 1, e - 1)
    IN
      IF e = 0 THEN Raise("ValueError")
      ELSE IF f = <<>> THEN
        IF numbering = "manual" THEN Raise("ValueError")
        ELSE IF n >= Len(args) THEN Raise("IndexError")
        ELSE Emit(args[n + 1], FormatFrom(fs, e + 1, args, "auto", n + 1))
      ELSE IF IsNumeral(f) THEN
        IF numbering = "auto" THEN Raise("ValueError")
        ELSE IF StrToInt(f) >= Len(args) THEN Raise("IndexError")
        ELSE Emit(args[StrToInt(f) + 1],
                  FormatFrom(fs, e + 1, args, "manual", n))
      ELSE Raise("KeyError")

Format(fs, args) == FormatFrom(fs, 1, args, "init", 0)

\* The re.sub call of line 123, on what Split returned or on given arguments.
MergeSub ==
  /\ pc \in {"split_returned", "merge"}
  /\ substituted' = ReSub(log_format)
  /\ pc' = "substituted"
  /\ UNCHANGED <<entry, format_string, idx, expressions, log_format,
                 current_expression, brace_count, need_separator,
                 merged, raised>>
  /\ UNCHANGED <<resolverVars, serviceVars, classVars>>

\* The .format call of line 123.
MergeFormat ==
  /\ pc = "substituted"
  /\ LET r == Format(substituted, expressions)
     IN /\ merged' = r.val
        /\ raised' = r.exc
        /\ pc' = IF r.exc = "" THEN "merge_returned" ELSE "merge_raised"
  /\ UNCHANGED <<entry, format_string, idx, expressions, log_format,
                 current_expression, brace_count, need_separator,
                 substituted>>
  /\ UNCHANGED <<resolverVars, serviceVars, classVars>>

InitMerge ==
  /\ entry = "Merge"
  /\ pc = "merge"
  /\ format_string = <<>>
  /\ idx = 0
  /\ expressions \in ExprLists
  /\ log_format \in SeqsUpTo(FmtAlphabet, MaxFmtLen)
  /\ current_expression = <<>>
  /\ brace_count = 0
  /\ need_separator = FALSE
  /\ substituted = <<>>
  /\ merged = <<>>
  /\ raised = ""

\* The value of `outcome` before any resolver call.
NoOutcome == [kind |-> "", value |-> <<>>, pattern |-> <<>>, candidates |-> <<>>]

\* No resolver call is under way.
ResolverIdle ==
  /\ response = <<>>
  /\ debuggees = <<>>
  /\ rpc = "idle"
  /\ outcome = NoOutcome
  /\ pattern = <<>>
  /\ all_debuggees = <<>>

\* Lines 157-160: the client attributes of DebugObject.
Handles ==
  {"_debug_client", "_debug_messages", "_resource_client", "_resource_messages"}

\* Lines 155, 230, 371: DebugObject and its two subclasses.
Classes == {"DebugObject", "Debugger", "Debuggee"}

\* What `cls._debug_client` and the like find: the attribute set on the
\* class itself, or else the one of DebugObject (None until it is set).
Visible(cls) == handles[cls] \cup handles["DebugObject"]

\* The projects the resource manager knows.
Projects ==
  { [projectId |-> <<"p">>, projectNumber |-> 7],
    [projectId |-> <<"q">>, projectNumber |-> 8] }

\* The state the breakpoint and resolver operations are modelled in:
\* InitializeApiClients was called on DebugObject, and the Debugger of
\* project "p" and one of its debuggees were constructed.
ClientsReady ==
  /\ handles = [c \in Classes |-> IF c = "DebugObject" THEN Handles ELSE {}]
  /\ objects = {"Debugger", "Debuggee"}
  /\ project_id_to_number_cache = [k \in {<<"p">>} |-> 7]
  /\ project_number_to_id_cache = [k \in {7} |-> <<"p">>]
  /\ argument = <<>>

\* No ListMatchingBreakpoints call is under way.
ListIdle ==
  /\ location_regexp_or_ids = {}
  /\ ids = {}
  /\ patterns = {}
  /\ include_inactive = FALSE
  /\ restrict_to_type = <<>>
  /\ result = <<>>

\* No CreateSnapshot or CreateLogpoint call is under way.
CreateIdle ==
  /\ location = <<>>
  /\ log_format_string = <<>>
  /\ log_level = <<>>

\* No WaitForBreakpoint call is under way.
WaitIdle ==
  /\ breakpoint_id = <<>>
  /\ timeout = <<>>
  /\ time_passed_ms = 0

NotReturned == [exc |-> "", val |-> <<>>]

\* No remote call was issued and nothing was returned.
RemoteIdle ==
  /\ server = <<>>
  /\ calls = <<>>
  /\ returned = NotReturned

\* No breakpoint service call is under way.
ServiceIdle ==
  /\ ListIdle
  /\ CreateIdle
  /\ WaitIdle
  /\ RemoteIdle
  /\ svc = "idle"

InitCodec == (InitSplit \/ InitMerge) /\ ResolverIdle /\ ServiceIdle /\ ClientsReady

NextCodec == ScanChar \/ ScanEnd \/ MergeSub \/ MergeFormat

SpecCodec == InitCodec /\ [][NextCodec]_vars

----------------------------------------------------------------------------
(* The debuggee resolver: Debuggee (debug.py 371-421),                     *)
(* Debugger.DefaultDebuggee (254-306), _FindLatestMinorVersion (713-741).  *)
(*                                                                         *)
(* A value that may be None is a sequence of length 0 (None) or 1.         *)

\* Lines 32-33.
DEFAULT_MODULE == <<"d", "e", "f", "a", "u", "l", "t">>

DEFAULT_VERSION == <<"d", "e", "f", "a", "u", "l", "t">>

\* `dict.get(key, None)`
Get(labels, key) == IF key \in DOMAIN labels THEN <<labels[key]>> ELSE <<>>

\* The truth value of a string that may be None: None and '' are false.
Truthy(opt) == opt # <<>> /\ opt[1] # <<>>

\* `a or b` for a string a that may be None and a string b.
OrElse(opt, default) == IF Truthy(opt) THEN opt[1] ELSE default

\* Lines 403-413: the properties module, version and minorversion.
Module(d) == Get(d.labels, "module")

Version(d) == Get(d.labels, "version")

Minorversion(d) == Get(d.labels, "minorversion")

\* Lines 415-421: the property name.
Name(d) ==
  IF Truthy(Module(d)) \/ Truthy(Version(d)) \/ Truthy(Minorversion(d))
    THEN OrElse(Module(d), DEFAULT_MODULE) \o <<"-">> \o OrElse(Version(d), DEFAULT_VERSION)
  ELSE d.target_id

\* Whether int(s) accepts the string s: an optional sign and decimal digits.
IsIntLiteral(s) ==
  /\ s # <<>>
  /\ IF s[1] \in {"-", "+"} THEN IsNumeral(Tail(s)) ELSE IsNumeral(s)

\* int(s) for a string it accepts.
PyInt(s) ==
  IF s[1] = "-" THEN 0 - StrToInt(Tail(s))
  ELSE IF s[1] = "+" THEN StrToInt(Tail(s))
  ELSE StrToInt(s)

\* Lines 374-389: the Debuggee built from a listed message.
Debuggee(message) ==
  [target_id |-> message.id, labels |-> message.labels,
   description |-> message.description]

\* Line 738: `not best_version or minor_version > best_version`, where
\* best_version is None or an integer (0 is false).
Replaces(minor_version, best_version) ==
  \/ best_version = <<>>
  \/ best_version[1] = 0
  \/ minor_version > best_version[1]

\* What a call gives back: a return value (value is <<>> for None) or an
\* exception; MultipleDebuggeesError carries a pattern and the debuggees.
Return(opt) == [kind |-> "return", value |-> opt, pattern |-> <<>>, candidates |-> <<>>]

RaiseError(cls) == [kind |-> cls, value |-> <<>>, pattern |-> <<>>, candidates |-> <<>>]

MultipleDebuggeesError(p, ds) ==
  [kind |-> "MultipleDebuggeesError", value |-> <<>>, pattern |-> p, candidates |-> ds]

\* Lines 726-741: the loop of _FindLatestMinorVersion from the i-th debuggee
\* on, with the locals best, best_version and name (each <<>> for None).
RECURSIVE LatestFrom(_, _, _, _, _)
LatestFrom(ds, i, best, best_version, name) ==
  IF i > Len(ds) THEN Return(best)
  ELSE
    LET d == ds[i]
        name1 == IF ~Truthy(name) THEN <<Name(d)>> ELSE name
        minor_version == Minorversion(d)
    IN
      IF Truthy(name) /\ name[1] # Name(d) THEN Return(<<>>)
      ELSE IF ~Truthy(minor_version) THEN Return(<<>>)
      ELSE IF ~IsIntLiteral(minor_version[1]) THEN RaiseError("ValueError")
      ELSE IF Replaces(PyInt(minor_version[1]), best_version)
        THEN LatestFrom(ds, i + 1, <<d>>, <<PyInt(minor_version[1])>>, name1)
      ELSE LatestFrom(ds, i + 1, best, best_version, name1)

\* Lines 713-741.
FindLatestMinorVersion(ds) ==
  IF ds = <<>> THEN Return(<<>>) ELSE LatestFrom(ds, 1, <<>>, <<>>, <<>>)

\* `[d for d in ds if not <property of d>]`
RECURSIVE Without(_, _)
Without(ds, key) ==
  IF ds = <<>> THEN <<>>
  ELSE IF ~Truthy(Get(Head(ds).labels, key))
    THEN <<Head(ds)>> \o Without(Tail(ds), key)
  ELSE Without(Tail(ds), key)

\* Lines 288-306: from the versions of the default module on.
DefaultByVersion(ds, by_module) ==
  LET by_version == Without(by_module, "version")
  IN IF Len(by_version) = 1 THEN Return(<<by_version[1]>>)
     ELSE IF by_version = <<>> THEN MultipleDebuggeesError(<<>>, ds)
     ELSE LET latest == FindLatestMinorVersion(by_version)
          IN IF latest.kind # "return" \/ latest.value # <<>> THEN latest
             ELSE RaiseError("NoDebuggeeError")

\* Mutant of DefaultByModule: with no debuggee of the default module the
\* call fails as if there were no debuggee at all.
DefaultByModuleNoDebuggee(ds) ==
  LET by_module == Without(ds, "module")
  IN IF by_module = <<>> THEN RaiseError("NoDebuggeeError")
     ELSE IF Len(by_module) = 1 THEN Return(<<by_module[1]>>)
     ELSE LET latest == FindLatestMinorVersion(by_module)
          IN IF latest.kind # "return" \/ latest.value # <<>> THEN latest
             ELSE DefaultByVersion(ds, by_module)

\* Lines 275-306: from the debuggees of the default module on.
DefaultByModule(ds) ==
  LET by_module == Without(ds, "module")
  IN IF by_module = <<>> THEN MultipleDebuggeesError(<<>>, ds)
     ELSE IF Len(by_module) = 1 THEN Return(<<by_module[1]>>)
     ELSE LET latest == FindLatestMinorVersion(by_module)
          IN IF latest.kind # "return" \/ latest.value # <<>> THEN latest
             ELSE DefaultByVersion(ds, by_module)

\* Lines 264-306: DefaultDebuggee on what ListDebuggees returned.
DefaultOf(ds) ==
  IF Len(ds) = 1 THEN Return(<<ds[1]>>)
  ELSE IF ds = <<>> THEN RaiseError("NoDebuggeeError")
  ELSE LET latest == FindLatestMinorVersion(ds)
       IN IF latest.kind # "return" \/ latest.value # <<>> THEN latest
          ELSE DefaultByModule(ds)

\* Lines 239-252: ListDebuggees.
ListDebuggees == [i \in 1..Len(response) |-> Debuggee(response[i])]

\* Debugger.DefaultDebuggee (lines 254-306).
DefaultDebuggee ==
  /\ rpc = "start"
  /\ debuggees' = ListDebuggees
  /\ outcome' = DefaultOf(ListDebuggees)
  /\ rpc' = "default_done"
  /\ UNCHANGED <<response, pattern, all_debuggees>>
  /\ UNCHANGED <<codecVars, serviceVars, classVars>>

\* _FindLatestMinorVersion called on a list of debuggees (lines 713-741).
CallFindLatestMinorVersion ==
  /\ rpc = "start"
  /\ debuggees' = ListDebuggees
  /\ outcome' = FindLatestMinorVersion(ListDebuggees)
  /\ rpc' = "latest_done"
  /\ UNCHANGED <<response, pattern, all_debuggees>>
  /\ UNCHANGED <<codecVars, serviceVars, classVars>>

\* The label values the service reports.
ModuleValues == {<<"m">>}

VersionValues == {<<"v">>}

MinorversionValues == {<<"0">>, <<"3">>, <<"7">>, <<"-", "1">>, <<"x">>}

LabelKeys == {"module", "version", "minorversion"}

LabelDicts ==
  UNION { { f \in [K -> ModuleValues \cup VersionValues \cup MinorversionValues] :
              /\ ("module" \in K => f["module"] \in ModuleValues)
              /\ ("version" \in K => f["version"] \in VersionValues)
              /\ ("minorversion" \in K => f["minorversion"] \in MinorversionValues) }
          : K \in SUBSET LabelKeys }

\* The target ID of the i-th listed debuggee: IDs are unique in a project.
TargetId(i) == <<"i">> \o IntToStr(i)

\* No codec call is under way.
CodecIdle ==
  /\ entry = "none"
  /\ pc = "idle"
  /\ format_string = <<>>
  /\ idx = 0
  /\ expressions = <<>>
  /\ log_format = <<>>
  /\ current_expression = <<>>
  /\ brace_count = 0
  /\ need_separator = FALSE
  /\ substituted = <<>>
  /\ merged = <<>>
  /\ raised = ""

InitResolver ==
  /\ ClientsReady
  /\ CodecIdle
  /\ ServiceIdle
  /\ \E n \in 0..MaxDebuggees :
       \E labels \in [1..n -> LabelDicts] :
         response = [i \in 1..n |-> [id |-> TargetId(i), labels |-> labels[i],
                                     description |-> <<>>]]
  /\ debuggees = <<>>
  /\ rpc = "start"
  /\ outcome = NoOutcome
  /\ pattern = <<>>
  /\ all_debuggees = <<>>

NextResolver == DefaultDebuggee \/ CallFindLatestMinorVersion

SpecResolver == InitResolver /\ [][NextResolver]_vars

----------------------------------------------------------------------------
(* Debugger.FindDebuggee (debug.py 308-342).                               *)
(*                                                                         *)
(* The regular expressions are those built from literal characters, `.`,   *)
(* a leading `^`, a trailing `$` and `c*`; re.search is computed on them.  *)

\* The text from its i-th character on (1-based).
From(text, i) == SubSeq(text, i, Len(text))

\* Whether the one-character pattern c matches the character x.
MatchesChar(c, x) == c = "." \/ c = x

\* A compiled pattern matched at the start of the text.
RECURSIVE MatchHere(_, _)
MatchHere(regexp, text) ==
  IF regexp = <<>> THEN TRUE
  ELSE IF Len(regexp) >= 2 /\ regexp[2] = "*"
    THEN \E k \in 0..Len(text) :
           /\ \A j \in 1..k : MatchesChar(regexp[1], text[j])
           /\ MatchHere(From(regexp, 3), From(text, k + 1))
  ELSE IF regexp = <<"$">> THEN text = <<>>
  ELSE IF text # <<>> /\ MatchesChar(regexp[1], text[1])
    THEN MatchHere(Tail(regexp), Tail(text))
  ELSE FALSE

\* `re.compile(regexp).search(text)`: a match anywhere in the text.
Search(regexp, text) ==
  IF regexp # <<>> /\ regexp[1] = "^" THEN MatchHere(Tail(regexp), text)
  ELSE \E i \in 1..(Len(text) + 1) : MatchHere(regexp, From(text, i))

\* errors.NoDebuggeeError(pattern)
NoDebuggeeError(p) ==
  [kind |-> "NoDebuggeeError", value |-> <<>>, pattern |-> <<p>>, candidates |-> <<>>]

\* Mutant of MatchesIdOrName: the target ID is not compared.
MatchesNameOnly(d, p) == Search(p, Name(d))

\* Line 326: `d.target_id == pattern or match_re.search(d.name)`.
MatchesIdOrName(d, p) == d.target_id = p \/ Search(p, Name(d))

\* Lines 325-326: `[d for d in all_debuggees if ...]`.
RECURSIVE ByIdOrName(_, _)
ByIdOrName(ds, p) ==
  IF ds = <<>> THEN <<>>
  ELSE IF MatchesIdOrName(Head(ds), p)
    THEN <<Head(ds)>> \o ByIdOrName(Tail(ds), p)
  ELSE ByIdOrName(Tail(ds), p)

\* Lines 329-330: `[d for d in all_debuggees if match_re.search(d.description)]`
\* for descriptions that are all strings.
RECURSIVE ByDescription(_, _)
ByDescription(ds, p) ==
  IF ds = <<>> THEN <<>>
  ELSE IF Search(p, Head(ds).description[1])
    THEN <<Head(ds)>> \o ByDescription(Tail(ds), p)
  ELSE ByDescription(Tail(ds), p)

\* Lines 329-330: search raises TypeError on a description that is None.
DescriptionSearchRaises(ds) == \E i \in 1..Len(ds) : ds[i].description = <<>>

\* Lines 325-330: the value of the local `debuggees` when line 331 is
\* reached, or when the description search raised.
Candidates(ds, p) ==
  LET by_name == ByIdOrName(ds, p)
  IN IF by_name # <<>> THEN by_name
     ELSE IF DescriptionSearchRaises(ds) THEN by_name
     ELSE ByDescription(ds, p)

\* Lines 331-342: from the candidates on.
FindAmong(cands, p) ==
  IF Len(cands) = 1 THEN Return(<<cands[1]>>)
  ELSE IF cands = <<>> THEN NoDebuggeeError(p)
  ELSE LET best == FindLatestMinorVersion(cands)
       IN IF best.kind # "return" THEN best
          ELSE IF best.value = <<>> THEN MultipleDebuggeesError(<<p>>, cands)
          ELSE best

\* Lines 323-342: FindDebuggee with a pattern, on what ListDebuggees returned.
FindOf(ds, p) ==
  IF ByIdOrName(ds, p) = <<>> /\ DescriptionSearchRaises(ds)
    THEN RaiseError("TypeError")
  ELSE FindAmong(Candidates(ds, p), p)

\* Debugger.FindDebuggee (lines 308-342).
FindDebuggee ==
  /\ rpc = "start"
  /\ IF pattern = <<>>
       THEN /\ debuggees' = ListDebuggees
            /\ outcome' = DefaultOf(ListDebuggees)
            /\ all_debuggees' = all_debuggees
       ELSE /\ all_debuggees' = ListDebuggees
            /\ debuggees' = Candidates(ListDebuggees, pattern)
            /\ outcome' = FindOf(ListDebuggees, pattern)
  /\ rpc' = "find_done"
  /\ UNCHANGED <<response, pattern>>
  /\ UNCHANGED <<codecVars, serviceVars, classVars>>

\* The labels of the listed debuggees FindDebuggee is called on.
FindLabelDicts ==
  { f \in LabelDicts :
      /\ Cardinality(DOMAIN f) <= 1
      /\ "version" \notin DOMAIN f
      /\ ("minorversion" \in DOMAIN f => f["minorversion"] \in {<<"3">>, <<"7">>, <<"x">>}) }

\* Their descriptions: None or a string.
DescriptionValues == {<<>>, << <<"q">> >>, << <<"i", "1">> >>}

\* The patterns given to FindDebuggee; '' stands for no pattern.
PatternValues ==
  { <<>>, <<"i", "1">>, <<"i", ".">>, <<"^", "m">>, <<"q">>,
    <<"l", "t", "$">>, <<"i", "1", "*", "2">> }

InitFind ==
  /\ ClientsReady
  /\ CodecIdle
  /\ ServiceIdle
  /\ \E n \in 0..MaxDebuggees :
       \E labels \in [1..n -> FindLabelDicts] :
         \E descriptions \in [1..n -> DescriptionValues] :
           response = [i \in 1..n |-> [id |-> TargetId(i), labels |-> labels[i],
                                       description |-> descriptions[i]]]
  /\ pattern \in PatternValues
  /\ debuggees = <<>>
  /\ all_debuggees = <<>>
  /\ rpc = "start"
  /\ outcome = NoOutcome

NextFind == FindDebuggee

SpecFind == InitFind /\ [][NextFind]_vars

----------------------------------------------------------------------------
(* Breakpoint IDs: _BREAKPOINT_ID_PATTERN (debug.py 35-38) and the split   *)
(* of the requested strings in ListMatchingBreakpoints (489-491).          *)

\* The repetition counts of the pattern of line 38.
IdFirstMin == 13

IdFirstMax == 16

IdSecondLen == 4

\* Longest third segment of the strings tried.
MaxThird == 9

HexDigits == Digits \cup {"a", "b", "c", "d", "e", "f"}

\* `[0-9a-f]` on the characters s[i..j].
AllHex(s, i, j) == \A k \in i..j : s[k] \in HexDigits

\* `$`: the end of the string, or just before a newline that ends it.
AtEnd(s, k) == k = Len(s) \/ (k + 1 = Len(s) /\ s[Len(s)] = "\n")

\* `[0-9a-f]+$` from the i-th character on.
ThirdSegment(s, i) ==
  \E m \in 1..Len(s) :
    /\ i + m - 1 <= Len(s)
    /\ AllHex(s, i, i + m - 1)
    /\ AtEnd(s, i + m - 1)

\* `_BREAKPOINT_ID_PATTERN.match(s)` (line 38).
MatchesBreakpointId(s) ==
  \E n \in IdFirstMin..IdFirstMax :
    /\ Len(s) >= n + IdSecondLen + 2
    /\ AllHex(s, 1, n)
    /\ s[n + 1] = "-"
    /\ AllHex(s, n + 2, n + 1 + IdSecondLen)
    /\ s[n + 2 + IdSecondLen] = "-"
    /\ ThirdSegment(s, n + 3 + IdSecondLen)

\* Lines 489-490: the requested strings that are breakpoint IDs.
IdsOf(requested) == {i \in requested : MatchesBreakpointId(i)}

\* Line 491: the other requested strings, compiled as patterns.
PatternsOf(requested) == requested \ IdsOf(requested)

\* Lines 489-491 of ListMatchingBreakpoints on one requested string.
ClassifyRequested ==
  /\ svc = "start"
  /\ ids' = IdsOf(location_regexp_or_ids)
  /\ patterns' = PatternsOf(location_regexp_or_ids)
  /\ svc' = "classified"
  /\ UNCHANGED <<location_regexp_or_ids, include_inactive, restrict_to_type, result>>
  /\ UNCHANGED <<createVars, waitVars, remoteVars>>
  /\ UNCHANGED <<classVars, codecVars, resolverVars>>

\* n times the character c.
Fill(n, c) == [k \in 1..n |-> c]

\* The strings tried: three runs of a character joined by two separators,
\* with a character put in front or behind.
IdLike ==
  { front \o Fill(n1, c) \o sep \o Fill(n2, c) \o sep \o Fill(n3, c) \o back :
      n1 \in (IdFirstMin - 1)..(IdFirstMax + 1),
      n2 \in (IdSecondLen - 1)..(IdSecondLen + 1),
      n3 \in 0..MaxThird,
      c \in {"1", "a", "f", "g", "A"},
      sep \in {<<"-">>, <<"_">>},
      front \in {<<>>, <<"x">>},
      back \in {<<>>, <<"\n">>, <<"-">>} }

InitIdPattern ==
  /\ ClientsReady
  /\ CodecIdle
  /\ ResolverIdle
  /\ CreateIdle
  /\ WaitIdle
  /\ RemoteIdle
  /\ \E s \in IdLike : location_regexp_or_ids = {s}
  /\ ids = {}
  /\ patterns = {}
  /\ include_inactive = FALSE
  /\ restrict_to_type = <<>>
  /\ result = <<>>
  /\ svc = "start"

NextIdPattern == ClassifyRequested

SpecIdPattern == InitIdPattern /\ [][NextIdPattern]_vars

----------------------------------------------------------------------------
(* Breakpoint messages and their decoration: DebugViewUrl (debug.py        *)
(* 126-152), Debuggee.AddTargetInfo (633-657), _MessageDict (744-775).     *)
(*                                                                         *)
(* A Breakpoint message is a record of its fields; each field is <<>> when *)
(* it is None and <<v>> when it has the value v.                           *)

BreakpointFields ==
  {"id", "location", "action", "logMessageFormat", "expressions", "isFinalState"}

\* Line 759: `not value` for the value of a message field.
Falsy(field, value) ==
  \/ value = <<>>
  \/ field \in {"id", "logMessageFormat", "expressions"} /\ value[1] = <<>>
  \/ field = "isFinalState" /\ ~value[1]

\* The Debuggee whose methods are called: the fields AddTargetInfo copies.
Self ==
  [project_id |-> <<"p">>, project_number |-> 7,
   target_uniquifier |-> <<"u">>, target_id |-> <<"i", "1">>]

\* Lines 642-646: the hidden fields AddTargetInfo starts from.
TargetInfo ==
  [f \in {"project_id", "project_number", "target_uniquifier", "target_id"} |->
     <<Self[f]>>]

\* Whether the object is a _MessageDict and not a message.
IsMessageDict(x) == "items" \in DOMAIN x

\* Mutant of MessageDict: the fields without a value are dropped.
MessageDictDropsEmpty(message, hidden_fields) ==
  [items |-> [f \in {g \in BreakpointFields : ~Falsy(g, message[g])} |-> message[f]],
   hidden |-> hidden_fields]

\* Lines 750-762: _MessageDict.__init__ on a message.
MessageDict(message, hidden_fields) ==
  [items |-> [f \in {g \in BreakpointFields : ~Falsy(g, message[g])} |-> message[f]],
   hidden |-> [f \in {g \in BreakpointFields : Falsy(g, message[g])} |-> message[f]]
                @@ hidden_fields]

\* Lines 764-770: _MessageDict.__getattr__.
GetAttr(d, attr) ==
  IF attr \in DOMAIN d.items THEN [exc |-> "", val |-> d.items[attr]]
  ELSE IF attr \in DOMAIN d.hidden THEN [exc |-> "", val |-> d.hidden[attr]]
  ELSE Raise("AttributeError")

\* `d[key] = value`
SetItem(d, key, value) ==
  [d EXCEPT !.items = [f \in {key} |-> value] @@ @]

\* Mutant of HideExistingField: the field is dropped, not kept hidden.
HideExistingFieldDrops(d, field_name) ==
  IF field_name \in DOMAIN d.hidden THEN d
  ELSE [d EXCEPT !.items = [f \in (DOMAIN d.items) \ {field_name} |-> d.items[f]]]

\* Lines 772-775: _MessageDict.HideExistingField.
HideExistingField(d, field_name) ==
  IF field_name \in DOMAIN d.hidden THEN d
  ELSE [items |-> [f \in (DOMAIN d.items) \ {field_name} |-> d.items[f]],
        hidden |-> [f \in {field_name} |->
                      IF field_name \in DOMAIN d.items THEN d.items[field_name]
                      ELSE <<>>] @@ d.hidden]

\* urllib.quote_plus on the characters that occur: letters, digits and
\* `_.-` stay, a space becomes `+`, the others are percent-encoded.
QuoteChar(c) ==
  IF c = " " THEN <<"+">>
  ELSE IF c = "/" THEN <<"%", "2", "F">>
  ELSE IF c = ":" THEN <<"%", "3", "A">>
  ELSE IF c = "$" THEN <<"%", "2", "4">>
  ELSE IF c = "{" THEN <<"%", "7", "B">>
  ELSE IF c = "}" THEN <<"%", "7", "D">>
  ELSE <<c>>

RECURSIVE QuotePlus(_)
QuotePlus(s) == IF s = <<>> THEN <<>> ELSE QuoteChar(Head(s)) \o QuotePlus(Tail(s))

\* Line 138.
debug_view_url ==
  <<"h", "t", "t", "p", "s", ":", "/", "/", "c", "o", "n", "s", "o", "l", "e", ".",
    "d", "e", "v", "e", "l", "o", "p", "e", "r", "s", ".", "g", "o", "o", "g", "l", "e",
    ".", "c", "o", "m", "/", "d", "e", "b", "u", "g", "/", "f", "r", "o", "m", "g", "c",
    "l", "o", "u", "d", "?">>

\* One `key=value` pair of urllib.urlencode, with what joins it to the
\* pairs before it.
UrlPair(first, key, value) ==
  (IF first THEN <<>> ELSE <<"&">>) \o key \o <<"=">> \o QuotePlus(value)

\* Lines 126-152: DebugViewUrl on a _MessageDict of a breakpoint.
DebugViewUrl(breakpoint) ==
  LET loc == GetAttr(breakpoint, "location").val
      path == IF loc # <<>> THEN loc[1].path ELSE <<>>
      line == IF loc # <<>> THEN loc[1].line ELSE 0
  IN debug_view_url
       \o UrlPair(TRUE, <<"p", "r", "o", "j", "e", "c", "t">>,
                  IntToStr(GetAttr(breakpoint, "project_number").val[1]))
       \o UrlPair(FALSE, <<"d", "b", "g", "e", "e">>,
                  GetAttr(breakpoint, "target_uniquifier").val[1])
       \o UrlPair(FALSE, <<"b", "p">>, GetAttr(breakpoint, "id").val[1])
       \o (IF path # <<>> THEN UrlPair(FALSE, <<"f", "p">>, path) ELSE <<>>)
       \o (IF line # 0 THEN UrlPair(FALSE, <<"f", "l">>, IntToStr(line)) ELSE <<>>)

\* Lines 651-652: '{0}:{1}'.format(path, line)
LocationString(loc) == loc.path \o <<":">> \o IntToStr(loc.line)

\* Mutant of DecodedLogMessageFormat: the expressions are left out.
DecodedWithoutExpressions(message) ==
  Format(ReSub(message.logMessageFormat[1]), <<>>)

\* Lines 654-655: the log format with its expressions put back.
DecodedLogMessageFormat(message) ==
  Format(ReSub(message.logMessageFormat[1]), message.expressions[1])

\* Lines 650-657: AddTargetInfo from the reformatting of the fields on.
Reformatted(message, wrapped) ==
  LET with_location ==
        IF ~Falsy("location", message.location)
          THEN SetItem(wrapped, "location", <<LocationString(message.location[1])>>)
        ELSE wrapped
      decoded == DecodedLogMessageFormat(message)
  IN IF Falsy("logMessageFormat", message.logMessageFormat)
       THEN [exc |-> "", val |-> with_location]
     ELSE IF decoded.exc # "" THEN Raise(decoded.exc)
     ELSE [exc |-> "",
           val |-> HideExistingField(
                     SetItem(with_location, "logMessageFormat", <<decoded.val>>),
                     "expressions")]

\* Lines 633-657: Debuggee.AddTargetInfo. A _MessageDict has no all_fields,
\* so that wrapping one raises AttributeError (line 757, 769).
AddTargetInfo(message) ==
  IF IsMessageDict(message) THEN Raise("AttributeError")
  ELSE LET wrapped == MessageDict(message, TargetInfo)
       IN Reformatted(message,
                      SetItem(wrapped, "consoleViewUrl", <<DebugViewUrl(wrapped)>>))

----------------------------------------------------------------------------
(* The breakpoint service: Debuggee.GetBreakpoint (debug.py 423-437),      *)
(* ListMatchingBreakpoints (466-504), _FilteredDictListWithInfo (675-688), *)
(* _MatchesIdOrRegexp (691-710).                                           *)

\* Most breakpoints the service holds for the debuggee.
MaxBreakpoints == 2

\* Lines 182-184.
SNAPSHOT_TYPE == <<"CAPTURE">>

LOGPOINT_TYPE == <<"LOG">>

\* A remote call fails: the HttpError that HandleHttpError turns into an
\* error of the debug API.
HttpError == Raise("HttpError")

\* The breakpoints a List call returns: those in the final state only when
\* include_inactive is set (lines 481-482, 492-498).
RemoteList(held, inactive) ==
  LET Listed(bp) == inactive \/ Falsy("isFinalState", bp.isFinalState)
  IN SelectSeq(held, Listed)

\* Whether the service holds a breakpoint with this ID.
Holds(held, id) == \E k \in 1..Len(held) : held[k].id = <<id>>

\* The breakpoint a Get call returns (line 436).
RemoteGet(held, id) == held[CHOOSE k \in 1..Len(held) : held[k].id = <<id>>]

\* Mutant of MatchesIdOrRegexp: a breakpoint without location matches any
\* pattern list that is not empty.
MatchesIdOrRegexpNoLocation(snapshot, id_set, pattern_set) ==
  IF snapshot.id[1] \in id_set THEN TRUE
  ELSE IF Falsy("location", snapshot.location) THEN pattern_set # {}
  ELSE \E q \in pattern_set : Search(q, LocationString(snapshot.location[1]))

\* Lines 691-710: _MatchesIdOrRegexp.
MatchesIdOrRegexp(snapshot, id_set, pattern_set) ==
  IF snapshot.id[1] \in id_set THEN TRUE
  ELSE IF Falsy("location", snapshot.location) THEN FALSE
  ELSE \E q \in pattern_set : Search(q, LocationString(snapshot.location[1]))

\* Lines 499-500: the listed breakpoints that match.
Matching(listed, id_set, pattern_set) ==
  LET Test(bp) == MatchesIdOrRegexp(bp, id_set, pattern_set)
  IN SelectSeq(listed, Test)

\* Lines 423-437: GetBreakpoint, given what the service holds.
GetBreakpoint(held, id) ==
  IF ~Holds(held, id) THEN HttpError
  ELSE AddTargetInfo(RemoteGet(held, id))

\* Lines 502-503: the loop over missing_ids in the order the set is
\* iterated in, from its k-th element on. kept is `result`, made the calls
\* issued so far.
RECURSIVE GetMissing(_, _, _, _, _)
GetMissing(held, order, k, kept, made) ==
  IF k > Len(order) THEN [exc |-> "", val |-> kept, calls |-> made]
  ELSE LET got == GetBreakpoint(held, order[k])
           made1 == Append(made, <<"Get", order[k]>>)
       IN IF got.exc # "" THEN [exc |-> got.exc, val |-> kept, calls |-> made1]
          ELSE GetMissing(held, order, k + 1, Append(kept, got.val), made1)

\* `r.action` for a message or a _MessageDict.
ActionOf(r) == IF IsMessageDict(r) THEN GetAttr(r, "action").val ELSE r.action

\* Lines 687-688: whether the breakpoint passes the type filter.
OfType(r, restrict) ==
  \/ restrict = <<>>
  \/ ActionOf(r) = restrict
  \/ (ActionOf(r) = <<>> /\ restrict = SNAPSHOT_TYPE)

\* Lines 675-688: _FilteredDictListWithInfo.
RECURSIVE FilteredDictListWithInfo(_, _)
FilteredDictListWithInfo(rs, restrict) ==
  IF rs = <<>> THEN [exc |-> "", val |-> <<>>]
  ELSE IF ~OfType(Head(rs), restrict)
    THEN FilteredDictListWithInfo(Tail(rs), restrict)
  ELSE LET info == AddTargetInfo(Head(rs))
           rest == FilteredDictListWithInfo(Tail(rs), restrict)
       IN IF info.exc # "" THEN Raise(info.exc)
          ELSE IF rest.exc # "" THEN rest
          ELSE [exc |-> "", val |-> <<info.val>> \o rest.val]

\* The orders a set can be iterated in.
Orders(S) ==
  {f \in [1..Cardinality(S) -> S] : \A a, b \in 1..Cardinality(S) : f[a] = f[b] => a = b}

\* Debuggee.ListMatchingBreakpoints (lines 466-504).
ListMatchingBreakpoints ==
  /\ svc = "start"
  /\ LET id_set == IdsOf(location_regexp_or_ids)
         pattern_set == PatternsOf(location_regexp_or_ids)
         kept == Matching(RemoteList(server, include_inactive), id_set, pattern_set)
         missing_ids == id_set \ {kept[k].id[1] : k \in 1..Len(kept)}
     IN /\ ids' = id_set
        /\ patterns' = pattern_set
        /\ \E order \in Orders(missing_ids) :
             LET got == GetMissing(server, order, 1, kept, << <<"List">> >>)
             IN /\ result' = got.val
                /\ calls' = got.calls
                /\ returned' = IF got.exc # "" THEN Raise(got.exc)
                               ELSE FilteredDictListWithInfo(got.val, restrict_to_type)
  /\ svc' = "list_done"
  /\ UNCHANGED <<location_regexp_or_ids, include_inactive, restrict_to_type, server>>
  /\ UNCHANGED <<classVars, codecVars, resolverVars, createVars, waitVars>>

\* The ID of the k-th breakpoint the service holds.
BreakpointId(k) ==
  Fill(IdFirstMin, "1") \o <<"-">> \o Fill(IdSecondLen, "a") \o <<"-">> \o IntToStr(k)

\* The breakpoints the service holds, but for their ID and state: a
\* snapshot, a snapshot in a file named like a breakpoint ID, a snapshot
\* without location, a logpoint, and a logpoint whose format has a brace of
\* its own.
BreakpointValues ==
  { [location |-> << [path |-> <<"a">>, line |-> 1] >>, action |-> <<>>,
     logMessageFormat |-> <<>>, expressions |-> << <<>> >>],
    [location |-> << [path |-> BreakpointId(1), line |-> 1] >>, action |-> SNAPSHOT_TYPE,
     logMessageFormat |-> <<>>, expressions |-> << <<>> >>],
    [location |-> <<>>, action |-> SNAPSHOT_TYPE,
     logMessageFormat |-> <<>>, expressions |-> << << <<"x">> >> >>],
    [location |-> << [path |-> <<"b">>, line |-> 2] >>, action |-> LOGPOINT_TYPE,
     logMessageFormat |-> << <<"$", "0">> >>, expressions |-> << << <<"a">> >> >>],
    [location |-> << [path |-> <<"a">>, line |-> 1] >>, action |-> LOGPOINT_TYPE,
     logMessageFormat |-> << <<"}">> >>, expressions |-> << <<>> >>] }

\* The k-th breakpoint held, with the given values and state.
Breakpoint(k, values, final) ==
  [id |-> <<BreakpointId(k)>>, location |-> values.location,
   action |-> values.action, logMessageFormat |-> values.logMessageFormat,
   expressions |-> values.expressions, isFinalState |-> <<final>>]

\* The breakpoints the service can hold.
Held ==
  UNION { { [k \in 1..n |-> Breakpoint(k, values[k], final[k])] :
              values \in [1..n -> BreakpointValues], final \in [1..n -> BOOLEAN] }
          : n \in 0..MaxBreakpoints }

\* The strings asked for: breakpoint IDs and location patterns.
RequestedStrings == {BreakpointId(1), BreakpointId(2), <<"a">>, <<"1", "$">>}

InitListMatching ==
  /\ ClientsReady
  /\ CodecIdle
  /\ ResolverIdle
  /\ CreateIdle
  /\ WaitIdle
  /\ location_regexp_or_ids \in {S \in SUBSET RequestedStrings : Cardinality(S) <= 2}
  /\ include_inactive \in BOOLEAN
  /\ restrict_to_type \in {<<>>, SNAPSHOT_TYPE, LOGPOINT_TYPE}
  /\ server \in Held
  /\ ids = {}
  /\ patterns = {}
  /\ result = <<>>
  /\ calls = <<>>
  /\ returned = NotReturned
  /\ svc = "start"

NextListMatching == ListMatchingBreakpoints

SpecListMatching == InitListMatching /\ [][NextListMatching]_vars

----------------------------------------------------------------------------
(* Creating breakpoints: Debuggee.CreateSnapshot (debug.py 506-547),       *)
(* CreateLogpoint (549-602), _LocationFromString (659-673).                *)

\* One iteration of the loop of SplitLogExpressions (lines 65-101) on the
\* character c, as a function of the locals.
SplitStep(st, c) ==
  LET lf == st.log_format \o Separator(st.need_separator, c)
  IN IF c = "{" THEN
       [st EXCEPT !.current_expression =
                     IF st.brace_count # 0 THEN Append(@, c) ELSE <<>>,
                  !.brace_count = @ + 1,
                  !.log_format = lf,
                  !.need_separator = FALSE]
     ELSE IF st.brace_count # 0 THEN
       IF c # "}" THEN
         [st EXCEPT !.current_expression = Append(@, c),
                    !.log_format = lf,
                    !.need_separator = FALSE]
       ELSE IF st.brace_count - 1 = 0 THEN
         [st EXCEPT !.brace_count = 0,
                    !.expressions = ExpressionsAfter(st.current_expression, @),
                    !.log_format =
                       lf \o EncodedIndex(ExpressionIndex(st.current_expression,
                                                          st.expressions)),
                    !.need_separator = TRUE]
       ELSE
         [st EXCEPT !.brace_count = @ - 1,
                    !.current_expression = Append(@, c),
                    !.log_format = lf,
                    !.need_separator = FALSE]
     ELSE
       [st EXCEPT !.log_format = Append(lf, c), !.need_separator = FALSE]

\* Lines 60-105 from the i-th character on.
RECURSIVE SplitFrom(_, _, _)
SplitFrom(s, i, st) ==
  IF i > Len(s)
    THEN IF Unbalanced(st.brace_count) THEN Raise("ValueError")
         ELSE [exc |-> "", val |-> <<st.log_format, st.expressions>>]
  ELSE SplitFrom(s, i + 1, SplitStep(st, s[i]))

\* SplitLogExpressions (lines 41-105) as a function of its argument.
SplitLogExpressions(s) ==
  SplitFrom(s, 1, [log_format |-> <<>>, expressions |-> <<>>,
                   current_expression |-> <<>>, brace_count |-> 0,
                   need_separator |-> FALSE])

\* `s.split(':')` from the i-th character on, the component begun being cur.
RECURSIVE SplitOnColon(_, _, _)
SplitOnColon(s, i, cur) ==
  IF i > Len(s) THEN <<cur>>
  ELSE IF s[i] = ":" THEN <<cur>> \o SplitOnColon(s, i + 1, <<>>)
  ELSE SplitOnColon(s, i + 1, Append(cur, s[i]))

\* Mutant of LocationFromString: the number of components is not checked,
\* the line is the last one.
LocationFromStringAnyColons(loc) ==
  LET components == SplitOnColon(loc, 1, <<>>)
  IN IF ~IsIntLiteral(components[Len(components)]) THEN Raise("ValueError")
     ELSE [exc |-> "",
           val |-> [path |-> components[1], line |-> PyInt(components[Len(components)])]]

\* Lines 659-673: _LocationFromString.
LocationFromString(loc) ==
  LET components == SplitOnColon(loc, 1, <<>>)
  IN IF Len(components) # 2 THEN Raise("ValueError")
     ELSE IF ~IsIntLiteral(components[2]) THEN Raise("ValueError")
     ELSE [exc |-> "", val |-> [path |-> components[1], line |-> PyInt(components[2])]]

LowerLetters ==
  <<"a", "b", "c", "d", "e", "f", "g", "h", "i", "j", "k", "l", "m",
    "n", "o", "p", "q", "r", "s", "t", "u", "v", "w", "x", "y", "z">>

UpperLetters ==
  <<"A", "B", "C", "D", "E", "F", "G", "H", "I", "J", "K", "L", "M",
    "N", "O", "P", "Q", "R", "S", "T", "U", "V", "W", "X", "Y", "Z">>

\* `s.upper()`
Upper(s) ==
  [k \in 1..Len(s) |->
     IF \E j \in 1..Len(LowerLetters) : LowerLetters[j] = s[k]
       THEN UpperLetters[CHOOSE j \in 1..Len(LowerLetters) : LowerLetters[j] = s[k]]
     ELSE s[k]]

\* The names of Breakpoint.LogLevelValueValuesEnum.
LogLevelNames ==
  { <<"I", "N", "F", "O">>, <<"W", "A", "R", "N", "I", "N", "G">>,
    <<"E", "R", "R", "O", "R">> }

\* Lines 585-588: the enum value of the level; the enum raises TypeError
\* for a name it does not have.
LogLevelOf(level) ==
  IF ~Truthy(level) THEN [exc |-> "", val |-> level]
  ELSE IF Upper(level[1]) \in LogLevelNames THEN [exc |-> "", val |-> <<Upper(level[1])>>]
  ELSE Raise("TypeError")

\* The breakpoint the service makes of a Set request: it gives it an ID and
\* holds it as not final.
NewBreakpoint(held, loc, kind, format, exprs) ==
  [id |-> <<BreakpointId(Len(held) + 1)>>, location |-> <<loc>>, action |-> kind,
   logMessageFormat |-> format, expressions |-> <<exprs>>, isFinalState |-> <<FALSE>>]

\* Lines 546-547 and 601-602: the Set call, which the service accepts or
\* not, and AddTargetInfo on the breakpoint of the response.
SetBreakpoint(accepted, breakpoint) ==
  /\ calls' = Append(calls, <<"Set">>)
  /\ IF accepted
       THEN /\ server' = Append(server, breakpoint)
            /\ returned' = AddTargetInfo(breakpoint)
       ELSE /\ server' = server
            /\ returned' = HttpError

\* The call raises before any request is made.
RaiseBeforeSet(cls) ==
  /\ returned' = Raise(cls)
  /\ UNCHANGED <<server, calls>>

\* Debuggee.CreateSnapshot (lines 506-547), without condition, expressions
\* and labels.
CreateSnapshot ==
  /\ svc = "start"
  /\ LET loc == LocationFromString(location)
     IN IF loc.exc # "" THEN RaiseBeforeSet(loc.exc)
        ELSE \E accepted \in BOOLEAN :
               SetBreakpoint(accepted,
                             NewBreakpoint(server, loc.val, SNAPSHOT_TYPE, <<>>, <<>>))
  /\ svc' = "snapshot_done"
  /\ UNCHANGED <<classVars, codecVars, resolverVars, listVars, createVars, waitVars>>

\* Debuggee.CreateLogpoint (lines 549-602), without condition and labels.
CreateLogpoint ==
  /\ svc = "start"
  /\ LET loc == LocationFromString(location)
         level == LogLevelOf(log_level)
         split == SplitLogExpressions(log_format_string)
     IN IF location = <<>> THEN RaiseBeforeSet("ValueError")
        ELSE IF log_format_string = <<>> THEN RaiseBeforeSet("ValueError")
        ELSE IF loc.exc # "" THEN RaiseBeforeSet(loc.exc)
        ELSE IF level.exc # "" THEN RaiseBeforeSet(level.exc)
        ELSE IF split.exc # "" THEN RaiseBeforeSet(split.exc)
        ELSE \E accepted \in BOOLEAN :
               SetBreakpoint(accepted,
                             NewBreakpoint(server, loc.val, LOGPOINT_TYPE,
                                           <<split.val[1]>>, split.val[2]))
  /\ svc' = "logpoint_done"
  /\ UNCHANGED <<classVars, codecVars, resolverVars, listVars, createVars, waitVars>>

\* The locations, log formats and log levels the calls are made with.
LocationValues ==
  { <<>>, <<"a">>, <<"a", ":", "1">>, <<"a", ":", "1", "2">>, <<"a", ":", "b">>,
    <<"a", ":", "1", ":", "2">>, <<"a", ":">>, <<":", "1">> }

LogFormatValues ==
  { <<>>, <<"a">>, <<"{", "a", "}">>, <<"{", "a">>, <<"{", "a", "}", "{">>,
    <<"}">>, <<"$", "0">> }

LogLevelValues ==
  { <<>>, << <<"i", "n", "f", "o">> >>, << <<"E", "r", "r", "o", "r">> >>,
    << <<"w", "a", "r", "n", "i", "n", "g">> >>, << <<"d", "e", "b", "u", "g">> >>,
    << <<"i", "n", "f", "o", "s">> >> }

InitCreate ==
  /\ ClientsReady
  /\ CodecIdle
  /\ ResolverIdle
  /\ ListIdle
  /\ WaitIdle
  /\ location \in LocationValues
  /\ log_format_string \in LogFormatValues
  /\ log_level \in LogLevelValues
  /\ server \in {h \in Held : Len(h) <= 1}
  /\ calls = <<>>
  /\ returned = NotReturned
  /\ svc = "start"

NextCreate == CreateSnapshot \/ CreateLogpoint

SpecCreate == InitCreate /\ [][NextCreate]_vars

----------------------------------------------------------------------------
(* Waiting for a breakpoint: Debuggee.WaitForBreakpoint (debug.py          *)
(* 604-631). The retryer (core/util/retry.py) is modelled as the           *)
(* specification describes it: it calls the function, stops when the       *)
(* result needs no retry, raises its timeout exception once the time       *)
(* budget is used up, and sleeps between two calls.                        *)

\* Line 605: the default of retry_ms.
RetryMs == 500

\* Line 618: wait_ceiling_ms.
WaitCeilingMs == 1000

\* Line 617: milliseconds in a second.
MsPerSecond == 1000

\* The time after which the model stops a wait that has no timeout.
MaxElapsedMs == 3000

\* Mutant of MaxWaitMs: the retryer is given no budget.
MaxWaitMsNone(seconds) == <<>>

\* Line 617: max_wait_ms.
MaxWaitMs(seconds) ==
  IF seconds # <<>> THEN <<MsPerSecond * seconds[1]>> ELSE <<>>

\* The time budget of the retryer is used up.
Expired(max_wait_ms, passed) == max_wait_ms # <<>> /\ passed > max_wait_ms[1]

\* The time a Get call takes.
LatencyMs == {0, RetryMs}

\* The time the retryer sleeps between two calls: sleep_ms, growing up to
\* the ceiling.
SleepMs == {RetryMs, WaitCeilingMs}

\* Mutant of ShouldRetry: no result is retried.
ShouldRetryNever(r) == FALSE

\* Line 626: should_retry_if.
ShouldRetry(r) == Falsy("isFinalState", r.isFinalState)

\* The retryer calls Get (lines 624-627); a result that needs no retry is
\* returned with AddTargetInfo (line 631).
WaitPoll ==
  /\ svc = "poll"
  /\ ~Expired(MaxWaitMs(timeout), time_passed_ms)
  /\ calls' = Append(calls, <<"Get", breakpoint_id>>)
  /\ IF ~Holds(server, breakpoint_id)
       THEN /\ returned' = HttpError
            /\ svc' = "wait_done"
            /\ UNCHANGED <<result, time_passed_ms>>
       ELSE LET r == RemoteGet(server, breakpoint_id)
            IN /\ result' = <<r>>
               /\ \E d \in LatencyMs : time_passed_ms' = time_passed_ms + d
               /\ IF ShouldRetry(r)
                    THEN /\ svc' = "sleep"
                         /\ UNCHANGED returned
                  ELSE /\ svc' = "wait_done"
                       /\ returned' = AddTargetInfo(r)
  /\ UNCHANGED <<breakpoint_id, timeout, server>>
  /\ UNCHANGED <<location_regexp_or_ids, ids, patterns, include_inactive,
                 restrict_to_type>>
  /\ UNCHANGED <<classVars, codecVars, resolverVars, createVars>>

\* The retryer sleeps before the next call.
WaitSleep ==
  /\ svc = "sleep"
  /\ ~Expired(MaxWaitMs(timeout), time_passed_ms)
  /\ time_passed_ms < MaxElapsedMs
  /\ \E d \in SleepMs : time_passed_ms' = time_passed_ms + d
  /\ svc' = "poll"
  /\ UNCHANGED <<breakpoint_id, timeout, server, calls, returned>>
  /\ UNCHANGED <<classVars, codecVars, resolverVars, listVars, createVars>>

\* The retryer raises its timeout exception, and WaitForBreakpoint returns
\* None (lines 628-630).
WaitTimeout ==
  /\ svc \in {"poll", "sleep"}
  /\ Expired(MaxWaitMs(timeout), time_passed_ms)
  /\ returned' = [exc |-> "", val |-> <<>>]
  /\ svc' = "wait_done"
  /\ UNCHANGED <<breakpoint_id, timeout, time_passed_ms, server, calls>>
  /\ UNCHANGED <<classVars, codecVars, resolverVars, listVars, createVars>>

\* The service completes a breakpoint: PENDING to FINAL.
ServerFinalizes ==
  /\ svc \in {"poll", "sleep"}
  /\ \E k \in 1..Len(server) :
       /\ Falsy("isFinalState", server[k].isFinalState)
       /\ server' = [server EXCEPT ![k].isFinalState = <<TRUE>>]
  /\ UNCHANGED <<breakpoint_id, timeout, time_passed_ms, calls, returned, svc>>
  /\ UNCHANGED <<classVars, codecVars, resolverVars, listVars, createVars>>

\* The timeouts, in seconds, the wait is called with.
TimeoutValues == {<<>>, <<0>>, <<1>>, <<2>>}

InitWait ==
  /\ ClientsReady
  /\ CodecIdle
  /\ ResolverIdle
  /\ ListIdle
  /\ CreateIdle
  /\ breakpoint_id = BreakpointId(1)
  /\ timeout \in TimeoutValues
  /\ time_passed_ms = 0
  /\ server \in {h \in Held : Len(h) <= 1}
  /\ calls = <<>>
  /\ returned = NotReturned
  /\ svc = "poll"

NextWait == WaitPoll \/ WaitSleep \/ WaitTimeout \/ ServerFinalizes

SpecWait == InitWait /\ [][NextWait]_vars

\* The wait as it runs: the loop of the retryer goes on, as the calling
\* thread is blocked in it and nothing else runs; the service completes a
\* pending breakpoint when it does. The wait is followed for MaxElapsedMs.
SpecWaitLive ==
  /\ SpecWait
  /\ WF_vars(WaitPoll)
  /\ WF_vars(WaitSleep)
  /\ WF_vars(WaitTimeout)

----------------------------------------------------------------------------
(* Debuggee.AddTargetInfo (debug.py 633-657) on a message of the service,  *)
(* next to MergeLogExpressions (108-123) on the message's log format and   *)
(* expressions.                                                            *)

\* The messages decorated: with and without a location, an action and a
\* log format, with each expression list.
DecorateMessages ==
  { [id |-> <<BreakpointId(1)>>, location |-> l, action |-> a,
     logMessageFormat |-> f, expressions |-> <<x>>, isFinalState |-> <<s>>] :
      l \in {<<>>, << [path |-> <<"a">>, line |-> 1] >>},
      a \in {<<>>, LOGPOINT_TYPE},
      f \in {<<>>} \cup {<<t>> : t \in SeqsUpTo(FmtAlphabet, MaxFmtLen)},
      x \in ExprLists,
      s \in BOOLEAN }

\* Lines 633-657: AddTargetInfo on the message.
Decorate ==
  /\ svc = "decorate"
  /\ returned' = AddTargetInfo(result[1])
  /\ svc' = "decorated"
  /\ UNCHANGED <<location_regexp_or_ids, ids, patterns, include_inactive,
                 restrict_to_type, result, createVars, waitVars, server, calls>>
  /\ UNCHANGED <<classVars, codecVars, resolverVars>>

\* The message to decorate; MergeLogExpressions is called with its log
\* format and expressions when it has a log format.
InitDecorate ==
  /\ ClientsReady
  /\ ResolverIdle
  /\ CreateIdle
  /\ WaitIdle
  /\ location_regexp_or_ids = {}
  /\ ids = {}
  /\ patterns = {}
  /\ include_inactive = FALSE
  /\ restrict_to_type = <<>>
  /\ result \in {<<d>> : d \in DecorateMessages}
  /\ server = <<>>
  /\ calls = <<>>
  /\ returned = NotReturned
  /\ svc = "decorate"
  /\ IF result[1].logMessageFormat = <<>> THEN CodecIdle
     ELSE /\ entry = "Merge"
          /\ pc = "merge"
          /\ format_string = <<>>
          /\ idx = 0
          /\ expressions = result[1].expressions[1]
          /\ log_format = result[1].logMessageFormat[1]
          /\ current_expression = <<>>
          /\ brace_count = 0
          /\ need_separator = FALSE
          /\ substituted = <<>>
          /\ merged = <<>>
          /\ raised = ""

NextDecorate == Decorate \/ MergeSub \/ MergeFormat

SpecDecorate == InitDecorate /\ [][NextDecorate]_vars

----------------------------------------------------------------------------
(* The class state of DebugObject (debug.py 155-227): the client           *)
(* attributes, _CheckClient, InitializeApiClients, the two project caches, *)
(* GetProjectNumber and GetProjectId; the construction of Debugger (233-   *)
(* 236) and Debuggee (374-376); and the way each operation starts: with    *)
(* _CheckClient or with the first use of a client attribute. What the      *)
(* operations do once the clients are there is modelled in the sections    *)
(* above.                                                                  *)

\* Most remote calls issued in one process.
MaxCalls == 3

\* The outcome of a call on a class: what it raised or returned, the remote
\* calls issued so far and the two caches.
Outcome(exc, val, issued, by_id, by_number) ==
  [exc |-> exc, val |-> val, calls |-> issued, ids |-> by_id, numbers |-> by_number]

\* The outcome of a call that raises before it touches anything.
Untouched(exc) ==
  Outcome(exc, <<>>, calls, project_id_to_number_cache, project_number_to_id_cache)

\* Mutant of Put: the entries the dictionary had are lost.
PutAlone(cache, key, value) == [k \in {key} |-> value]

\* Lines 208-209: `cache[key] = value`.
Put(cache, key, value) ==
  [k \in (DOMAIN cache) \cup {key} |-> IF k = key THEN value ELSE cache[k]]

\* The projects the resource manager finds for the identifier given: a
\* project ID or a project number written as a string.
ProjectsNamed(project_id) ==
  {pr \in Projects : pr.projectId = project_id
                       \/ IntToStr(pr.projectNumber) = project_id}

\* Lines 171-174: _CheckClient.
CheckClient(cls) ==
  IF \/ "_debug_client" \notin Visible(cls)
     \/ "_debug_messages" \notin Visible(cls)
     \/ "_resource_client" \notin Visible(cls)
     \/ "_resource_messages" \notin Visible(cls)
    THEN "NoEndpointError"
  ELSE ""

\* Lines 190-210: GetProjectNumber. The request message is built from
\* _resource_messages (206) before _resource_client is used (204); None has
\* neither attribute. A project the resource manager does not know is an
\* HttpError, which HandleHttpError turns into an error of the API.
GetProjectNumber(cls, project_id) ==
  LET found == ProjectsNamed(project_id)
      project == CHOOSE pr \in found : TRUE
      issued == Append(calls, <<"GetProject", project_id>>)
  IN IF project_id \in DOMAIN project_id_to_number_cache
       THEN Outcome("", <<project_id_to_number_cache[project_id]>>, calls,
                    project_id_to_number_cache, project_number_to_id_cache)
     ELSE IF "_resource_messages" \notin Visible(cls) THEN Untouched("AttributeError")
     ELSE IF "_resource_client" \notin Visible(cls) THEN Untouched("AttributeError")
     ELSE IF found = {}
       THEN Outcome("HttpError", <<>>, issued,
                    project_id_to_number_cache, project_number_to_id_cache)
     ELSE Outcome("", <<project.projectNumber>>, issued,
                  Put(project_id_to_number_cache, project.projectId,
                      project.projectNumber),
                  Put(project_number_to_id_cache, project.projectNumber,
                      project.projectId))

\* Lines 212-227: GetProjectId.
GetProjectId(cls, project_number) ==
  IF project_number \in DOMAIN project_number_to_id_cache
    THEN Outcome("", <<project_number_to_id_cache[project_number]>>, calls,
                 project_id_to_number_cache, project_number_to_id_cache)
  ELSE LET r == GetProjectNumber(cls, IntToStr(project_number))
       IN IF r.exc # "" THEN r
          ELSE [r EXCEPT !.val =
                  << IF project_number \in DOMAIN r.numbers
                       THEN r.numbers[project_number]
                     ELSE IntToStr(project_number) >>]

\* The call named op ends with the outcome r.
Ends(op, r) ==
  /\ svc' = op
  /\ returned' = [exc |-> r.exc, val |-> r.val]
  /\ calls' = r.calls
  /\ project_id_to_number_cache' = r.ids
  /\ project_number_to_id_cache' = r.numbers

\* What stays as it is in every step of the class state.
ClassFrame ==
  /\ UNCHANGED <<codecVars, resolverVars, listVars, createVars, waitVars, server>>

\* The project identifiers asked for: an ID, the number of that project as
\* a string, and an ID no project has.
ProjectIdsAsked == {<<"p">>, IntToStr(7), <<"x">>}

\* The project numbers asked for: those of the two projects and one that no
\* project has.
ProjectNumbersAsked == {7, 8, 9}

\* Lines 176-184: InitializeApiClients, on the class it is called on.
InitializeApiClients ==
  /\ Len(calls) < MaxCalls
  /\ \E cls \in Classes :
       /\ handles' = [handles EXCEPT ![cls] = Handles]
       /\ argument' = <<cls>>
  /\ Ends("InitializeApiClients", Untouched(""))
  /\ UNCHANGED objects
  /\ ClassFrame

\* Lines 233-236: Debugger.__init__.
NewDebugger ==
  /\ Len(calls) < MaxCalls
  /\ \E project_id \in ProjectIdsAsked :
       LET r == IF CheckClient("Debugger") # ""
                  THEN Untouched(CheckClient("Debugger"))
                ELSE GetProjectNumber("Debugger", project_id)
       IN /\ Ends("Debugger", r)
          /\ argument' = <<project_id>>
          /\ objects' = IF r.exc = "" THEN objects \cup {"Debugger"} ELSE objects
  /\ UNCHANGED handles
  /\ ClassFrame

\* Lines 190-210, called on any of the classes.
CallGetProjectNumber ==
  /\ Len(calls) < MaxCalls
  /\ \E cls \in Classes, project_id \in ProjectIdsAsked :
       /\ Ends("GetProjectNumber", GetProjectNumber(cls, project_id))
       /\ argument' = <<project_id>>
  /\ UNCHANGED <<handles, objects>>
  /\ ClassFrame

\* Lines 212-227, called on any of the classes.
CallGetProjectId ==
  /\ Len(calls) < MaxCalls
  /\ \E cls \in Classes, project_number \in ProjectNumbersAsked :
       /\ Ends("GetProjectId", GetProjectId(cls, project_number))
       /\ argument' = <<project_number>>
  /\ UNCHANGED <<handles, objects>>
  /\ ClassFrame

\* Lines 374-376: Debuggee.__init__ on a message of the given project.
NewDebuggee ==
  /\ Len(calls) < MaxCalls
  /\ \E project_number \in ProjectNumbersAsked :
       LET r == GetProjectId("Debuggee", project_number)
       IN /\ Ends("Debuggee", r)
          /\ argument' = <<project_number>>
          /\ objects' = IF r.exc = "" THEN objects \cup {"Debuggee"} ELSE objects
  /\ UNCHANGED handles
  /\ ClassFrame

\* An operation that builds its request from _debug_messages and sends it
\* with _debug_client, without _CheckClient.
Unchecked(cls, call) ==
  IF "_debug_messages" \notin Visible(cls) THEN Untouched("AttributeError")
  ELSE IF "_debug_client" \notin Visible(cls) THEN Untouched("AttributeError")
  ELSE Outcome("", <<>>, Append(calls, call),
               project_id_to_number_cache, project_number_to_id_cache)

\* An operation that starts with _CheckClient.
Checked(cls, call) ==
  IF CheckClient(cls) # "" THEN Untouched(CheckClient(cls))
  ELSE Unchecked(cls, call)

\* Lines 238-252: ListDebuggees of a Debugger, up to the Debuggee objects
\* built from the response, whose project is one the Debugger looked up.
EnterListDebuggees ==
  /\ Len(calls) < MaxCalls
  /\ "Debugger" \in objects
  /\ LET r == Unchecked("Debugger", <<"ListDebuggees">>)
     IN /\ Ends("ListDebuggees", r)
        /\ objects' = IF r.exc = "" THEN objects \cup {"Debuggee"} ELSE objects
  /\ argument' = <<>>
  /\ UNCHANGED handles
  /\ ClassFrame

\* An operation of a Debuggee, up to its first remote call.
DebuggeeCall(op, r) ==
  /\ Len(calls) < MaxCalls
  /\ Ends(op, r)
  /\ argument' = <<>>
  /\ UNCHANGED <<handles, objects>>
  /\ ClassFrame

\* Lines 423-437.
EnterGetBreakpoint ==
  /\ "Debuggee" \in objects
  /\ DebuggeeCall("GetBreakpoint", Unchecked("Debuggee", <<"Get", BreakpointId(1)>>))

\* Lines 439-450.
EnterDeleteBreakpoint ==
  /\ "Debuggee" \in objects
  /\ DebuggeeCall("DeleteBreakpoint", Unchecked("Debuggee", <<"Delete", BreakpointId(1)>>))

\* Lines 452-464.
EnterListBreakpoints ==
  /\ "Debuggee" \in objects
  /\ DebuggeeCall("ListBreakpoints", Checked("Debuggee", <<"List">>))

\* Lines 466-498.
EnterListMatchingBreakpoints ==
  /\ "Debuggee" \in objects
  /\ DebuggeeCall("ListMatchingBreakpoints", Checked("Debuggee", <<"List">>))

\* Lines 506-546, with a location that is well formed.
EnterCreateSnapshot ==
  /\ "Debuggee" \in objects
  /\ DebuggeeCall("CreateSnapshot", Checked("Debuggee", <<"Set">>))

\* Lines 549-601, with arguments that are well formed.
EnterCreateLogpoint ==
  /\ "Debuggee" \in objects
  /\ DebuggeeCall("CreateLogpoint", Checked("Debuggee", <<"Set">>))

\* Lines 604-627.
EnterWaitForBreakpoint ==
  /\ "Debuggee" \in objects
  /\ DebuggeeCall("WaitForBreakpoint", Unchecked("Debuggee", <<"Get", BreakpointId(1)>>))

\* A process in which nothing was initialized, constructed or looked up.
InitSession ==
  /\ CodecIdle
  /\ ResolverIdle
  /\ ServiceIdle
  /\ handles = [c \in Classes |-> {}]
  /\ objects = {}
  /\ project_id_to_number_cache = <<>>
  /\ project_number_to_id_cache = <<>>
  /\ argument = <<>>

NextSession ==
  \/ InitializeApiClients
  \/ NewDebugger
  \/ CallGetProjectNumber
  \/ CallGetProjectId
  \/ NewDebuggee
  \/ EnterListDebuggees
  \/ EnterGetBreakpoint
  \/ EnterDeleteBreakpoint
  \/ EnterListBreakpoints
  \/ EnterListMatchingBreakpoints
  \/ EnterCreateSnapshot
  \/ EnterCreateLogpoint
  \/ EnterWaitForBreakpoint

SpecSession == InitSession /\ [][NextSession]_vars

----------------------------------------------------------------------------
(* What the codec's claims speak of, defined on the format string alone.   *)

\* Brace depth after the first k characters: '{' opens, '}' closes when a
\* brace is open and is plain text otherwise.
RECURSIVE RefDepth(_, _)
RefDepth(s, k) ==
  IF k = 0 THEN 0
  ELSE LET d == RefDepth(s, k - 1)
       IN IF s[k] = "{" THEN d + 1
          ELSE IF s[k] = "}" /\ d > 0 THEN d - 1
          ELSE d

\* Position j holds the '}' that closes a top-level expression.
TopClose(s, j) == j \in 1..Len(s) /\ s[j] = "}" /\ RefDepth(s, j - 1) = 1

\* The text of the top-level expression closed at position j.
ExprEndingAt(s, j) ==
  LET i == CHOOSE i \in 1..(j - 1) :
             /\ s[i] = "{"
             /\ RefDepth(s, i - 1) = 0
             /\ \A k \in i..(j - 1) : RefDepth(s, k) >= 1
  IN SubSeq(s, i + 1, j - 1)

\* The texts of the top-level expressions closed within the first k
\* characters, one entry per occurrence, in order.
RECURSIVE OccUpTo(_, _)
OccUpTo(s, k) ==
  IF k = 0 THEN <<>>
  ELSE IF TopClose(s, k) THEN Append(OccUpTo(s, k - 1), ExprEndingAt(s, k))
  ELSE OccUpTo(s, k - 1)

\* q without the later copies of its entries.
RECURSIVE Dedup(_)
Dedup(q) ==
  IF q = <<>> THEN <<>>
  ELSE LET r == Dedup(SubSeq(q, 1, Len(q) - 1))
       IN IF \E i \in 1..Len(r) : r[i] = q[Len(q)] THEN r
          ELSE Append(r, q[Len(q)])

FirstPos(q, x) == CHOOSE i \in 1..Len(q) : q[i] = x /\ \A j \in 1..(i - 1) : q[j] # x

HasSuffix(q, suffix) ==
  /\ Len(suffix) <= Len(q)
  /\ SubSeq(q, Len(q) - Len(suffix) + 1, Len(q)) = suffix

CountIn(c, s, i, j) == Cardinality({k \in i..j : s[k] = c})

\* Some '{' of s is never closed.
HasUnclosed(s) ==
  \E i \in 1..Len(s) :
    /\ s[i] = "{"
    /\ \A j \in i..Len(s) : CountIn("{", s, i, j) > CountIn("}", s, i, j)

\* Position j holds a '}' that closes nothing: every '{' before it was
\* closed before j.
StrayClose(s, j) ==
  /\ s[j] = "}"
  /\ \A i \in 1..(j - 1) :
       s[i] = "{" =>
         \E m \in i..(j - 1) : CountIn("}", s, i, m) >= CountIn("{", s, i, m)

\* The indices of the '$<digits>' tokens of an encoded format.
TokenIndices(fmt) ==
  { StrToInt(SubSeq(fmt, i + 1, DigitRunEnd(fmt, i + 1))) :
      i \in {i \in 1..(Len(fmt) - 1) : fmt[i] = "$" /\ IsDigit(fmt[i + 1])} }

\* Split has returned (and Merge may have run on what it returned).
SplitReturned ==
  entry = "Split" /\ pc \in {"split_returned", "substituted",
                             "merge_returned", "merge_raised"}

MergeEnded == pc \in {"merge_returned", "merge_raised"}

\* fmt with each '$<digits>' token replaced by '{' + exprs[index] + '}' and
\* every other character kept.
RECURSIVE RefMergeFrom(_, _, _)
RefMergeFrom(fmt, i, exprs) ==
  IF i > Len(fmt) THEN <<>>
  ELSE IF fmt[i] = "$" /\ i < Len(fmt) /\ IsDigit(fmt[i + 1]) THEN
    LET j == DigitRunEnd(fmt, i + 1)
    IN <<"{">> \o exprs[StrToInt(SubSeq(fmt, i + 1, j)) + 1] \o <<"}">>
         \o RefMergeFrom(fmt, j + 1, exprs)
  ELSE <<fmt[i]>> \o RefMergeFrom(fmt, i + 1, exprs)

\* s with a space after each top-level expression that a digit follows.
RECURSIVE WithSeparatorsFrom(_, _)
WithSeparatorsFrom(s, k) ==
  IF k > Len(s) THEN <<>>
  ELSE (IF TopClose(s, k - 1) /\ IsDigit(s[k]) THEN <<" ", s[k]>> ELSE <<s[k]>>)
         \o WithSeparatorsFrom(s, k + 1)

----------------------------------------------------------------------------
(* Claims about the codec, checked under SpecCodec.                        *)

\* C1: when Split returns, the expression list is the list of top-level
\* expression texts with later duplicates removed (no two entries equal,
\* ordered by first appearance), and each time a top-level expression is
\* closed the token written for it is '$i', i the index of the first
\* occurrence of its text.
C1_DedupFirstIndex ==
  /\ SplitReturned =>
       expressions = Dedup(OccUpTo(format_string, Len(format_string)))
  /\ (entry = "Split" /\ pc = "split" /\ TopClose(format_string, idx)) =>
       LET seen == Dedup(OccUpTo(format_string, idx))
           e == ExprEndingAt(format_string, idx)
       IN /\ expressions = seen
          /\ HasSuffix(log_format, <<"$">> \o IntToStr(FirstPos(seen, e) - 1))

\* C1 witness: Split has returned from a format string in which the text of
\* an expression occurs a second time.
C1_Witness ==
  /\ SplitReturned
  /\ Len(expressions) >= 1
  /\ Len(OccUpTo(format_string, Len(format_string))) > Len(expressions)

\* C2 (as claimed): every '$i' token of the encoded format that Split
\* returns has i < len(expressions).
C2_TokensInRange ==
  SplitReturned => \A n \in TokenIndices(log_format) : n < Len(expressions)

\* C3: each iteration of Split's loop adds one space before anything else
\* exactly when the previous character closed a top-level expression and
\* this character is a digit; after it, a character outside braces is
\* copied as it is, the '}' that closes a top-level expression adds a
\* '$<index>' token, and a character inside braces adds nothing; the end of
\* the input adds nothing.
C3_SeparatorOnlyBeforeDigit ==
  [][ /\ (pc = "split" /\ idx' = idx + 1) =>
           LET s == format_string
               c == format_string[idx + 1]
               sep == IF TopClose(s, idx) /\ IsDigit(c) THEN <<" ">> ELSE <<>>
           IN IF RefDepth(s, idx) = 0 /\ c # "{"
                THEN log_format' = log_format \o sep \o <<c>>
              ELSE IF TopClose(s, idx + 1)
                THEN \E n \in 0..Len(s) :
                       log_format' = log_format \o sep \o <<"$">> \o IntToStr(n)
              ELSE log_format' = log_format \o sep
      /\ (pc = "split" /\ pc' # "split") => log_format' = log_format
    ]_vars

\* C3 witness: Split has returned from a format string without spaces in
\* which a digit follows a top-level expression, and the output has a space.
C3_Witness ==
  /\ SplitReturned
  /\ \E k \in 1..(Len(format_string) - 1) :
       TopClose(format_string, k) /\ IsDigit(format_string[k + 1])
  /\ \A k \in 1..Len(format_string) : format_string[k] # " "
  /\ \E k \in 1..Len(log_format) : log_format[k] = " "

C5_MergeReplacesTokensOnly ==
  (MergeEnded /\ \A n \in TokenIndices(log_format) : n < Len(expressions)) =>
    /\ pc = "merge_returned"
    /\ merged = RefMergeFrom(log_format, 1, expressions)

\* C6 (as claimed): for a format string that Split accepts, Merge of what
\* Split returned is the format string with one space after each top-level
\* expression that a digit follows (so it is the format string itself when
\* no expression is followed by a digit).
C6_RoundTripUpToSeparators ==
  (MergeEnded /\ entry = "Split") =>
    /\ pc = "merge_returned"
    /\ merged = WithSeparatorsFrom(format_string, 1)

----------------------------------------------------------------------------
(* What the resolver's claims speak of.                                    *)

LatestCalled == rpc = "latest_done"

DefaultCalled == rpc = "default_done"

SameName(ds) == \A i, j \in 1..Len(ds) : Name(ds[i]) = Name(ds[j])

\* The debuggee has a minorversion label that is present and not empty.
HasMinorversion(d) == Truthy(Minorversion(d))

\* The debuggee has a minorversion label that int() reads.
NumericMinorversion(d) == HasMinorversion(d) /\ IsIntLiteral(Minorversion(d)[1])

MinorOf(d) == PyInt(Minorversion(d)[1])

Members(ds) == {ds[i] : i \in 1..Len(ds)}

\* LatestMinorVersion as the spec describes it: the results it allows.
RefLatest(ds) ==
  IF ds # <<>> /\ SameName(ds) /\ \A d \in Members(ds) : NumericMinorversion(d)
    THEN {d \in Members(ds) : \A e \in Members(ds) : MinorOf(d) >= MinorOf(e)}
  ELSE {}

Returns(d) == [kind |-> "return", value |-> <<d>>]

Fails(cls) == [kind |-> cls, value |-> <<>>]

\* ResolveDefault as the spec describes it: the outcomes (kind and value) it
\* allows, the steps tried in order.
RefResolveDefault(ds) ==
  LET by_module == Without(ds, "module")
      by_version == Without(by_module, "version")
  IN IF ds = <<>> THEN {Fails("NoDebuggeeError")}
     ELSE IF Len(ds) = 1 THEN {Returns(ds[1])}
     ELSE IF RefLatest(ds) # {} THEN {Returns(d) : d \in RefLatest(ds)}
     ELSE IF by_module = <<>> THEN {Fails("MultipleDebuggeesError")}
     ELSE IF Len(by_module) = 1 THEN {Returns(by_module[1])}
     ELSE IF RefLatest(by_module) # {} THEN {Returns(d) : d \in RefLatest(by_module)}
     ELSE IF by_version = <<>> THEN {Fails("MultipleDebuggeesError")}
     ELSE IF Len(by_version) = 1 THEN {Returns(by_version[1])}
     ELSE IF RefLatest(by_version) # {} THEN {Returns(d) : d \in RefLatest(by_version)}
     ELSE {Fails("NoDebuggeeError")}

TwoNames ==
  Len(debuggees) = 2 /\ Name(debuggees[1]) # Name(debuggees[2])

\* The first debuggee's minorversion label is there and int() rejects it.
FirstNotNumeric ==
  HasMinorversion(debuggees[1]) /\ ~NumericMinorversion(debuggees[1])

----------------------------------------------------------------------------
(* Claims about the resolver, checked under SpecResolver.                  *)

\* C7 (as claimed), for debuggees whose minorversion labels int() reads:
\* LatestMinorVersion returns a debuggee exactly when the list is not empty,
\* all names are equal and every debuggee has a minorversion label, and the
\* debuggee returned is in the list and no debuggee of the list has a
\* greater minor version.
C7_LatestIsMaximum ==
  (LatestCalled
     /\ \A d \in Members(debuggees) : HasMinorversion(d) => NumericMinorversion(d)) =>
    /\ outcome.kind = "return"
    /\ (outcome.value # <<>>) <=>
         /\ debuggees # <<>>
         /\ SameName(debuggees)
         /\ \A d \in Members(debuggees) : HasMinorversion(d)
    /\ outcome.value # <<>> =>
         /\ outcome.value[1] \in Members(debuggees)
         /\ \A e \in Members(debuggees) : MinorOf(outcome.value[1]) >= MinorOf(e)

\* C8 (as claimed): when the names differ or some minorversion label is
\* missing or not numeric, LatestMinorVersion returns None and raises
\* nothing, and DefaultDebuggee is never aborted by a ValueError.
C8_NoResultNeverRaises ==
  /\ (LatestCalled
        /\ (~SameName(debuggees)
              \/ \E d \in Members(debuggees) : ~NumericMinorversion(d))) =>
       outcome = Return(<<>>)
  /\ DefaultCalled => outcome.kind # "ValueError"

\* C9 (as claimed): DefaultDebuggee ends as the spec's ordered procedure
\* does, LatestMinorVersion being the step the spec describes.
C9_DefaultFollowsProcedure ==
  DefaultCalled =>
    [kind |-> outcome.kind, value |-> outcome.value] \in RefResolveDefault(debuggees)

----------------------------------------------------------------------------
(* Claims about FindDebuggee, checked under SpecFind.                      *)

FindCalled == rpc = "find_done" /\ pattern # <<>>

\* The listed debuggees whose target ID is the pattern or whose name the
\* pattern is found in, in listing order.
IdOrNameMatches ==
  LET Test(d) == d.target_id = pattern \/ Search(pattern, Name(d))
  IN SelectSeq(all_debuggees, Test)

\* The listed debuggees in whose description the pattern is found.
DescriptionMatches ==
  LET Test(d) == d.description # <<>> /\ Search(pattern, d.description[1])
  IN SelectSeq(all_debuggees, Test)

\* The candidates as the spec describes them.
RefCandidates ==
  IF IdOrNameMatches # <<>> THEN IdOrNameMatches ELSE DescriptionMatches

\* The debuggees a resolver outcome names: the one returned or the ones an
\* ambiguity error lists.
Named(o) ==
  IF o.kind = "return" THEN Members(o.value)
  ELSE IF o.kind = "MultipleDebuggeesError" THEN Members(o.candidates)
  ELSE {}

\* C11: FindDebuggee with a pattern takes as candidates exactly the listed
\* debuggees whose target ID is the pattern or whose name the pattern is
\* found in; when there is one, the candidates are these and no other
\* debuggee is returned or listed in the error, whatever its description;
\* only when there is none are the candidates picked by description.
C11_CandidatesByIdOrNameFirst ==
  FindCalled =>
    /\ IdOrNameMatches # <<>> =>
         /\ debuggees = IdOrNameMatches
         /\ Named(outcome) \subseteq Members(IdOrNameMatches)
    /\ IdOrNameMatches = <<>> =>
         /\ Members(debuggees) \subseteq Members(DescriptionMatches)
         /\ Named(outcome) \subseteq Members(DescriptionMatches)

\* C11 witness: the pattern is the target ID of a debuggee whose name it is
\* not found in, another debuggee has it in its description only, and the
\* first is returned.
C11_Witness ==
  /\ FindCalled
  /\ \E d \in Members(all_debuggees) :
       /\ d.target_id = pattern
       /\ ~Search(pattern, Name(d))
       /\ outcome = Return(<<d>>)
  /\ \E e \in Members(DescriptionMatches) : e \notin Members(IdOrNameMatches)

\* C12: FindDebuggee with a pattern returns the only candidate when there
\* is exactly one, raises NoDebuggeeError carrying the pattern when there is
\* none after the description fallback, and with several returns
\* LatestMinorVersion of the candidates when that yields one and otherwise
\* raises MultipleDebuggeesError carrying the pattern and the candidates.
C12_OutcomeByCandidateCount ==
  FindCalled =>
    LET cands == RefCandidates
    IN IF Len(cands) = 1 THEN outcome = Return(<<cands[1]>>)
       ELSE IF cands = <<>> THEN outcome = NoDebuggeeError(pattern)
       ELSE IF RefLatest(cands) # {}
         THEN outcome \in {Return(<<d>>) : d \in RefLatest(cands)}
       ELSE outcome = MultipleDebuggeesError(<<pattern>>, cands)

----------------------------------------------------------------------------
(* Claims about the breakpoint ID pattern, checked under SpecIdPattern.    *)

\* The pattern the specification gives: `^[0-9a-f]{13,16}-[0-9a-f]{4}-[0-9a-f]{1,8}$`.
RefBreakpointId(s) ==
  \E n \in 13..16 : \E m \in 1..8 :
    /\ Len(s) >= n + 6 + m
    /\ \A k \in 1..n : s[k] \in HexDigits
    /\ s[n + 1] = "-"
    /\ \A k \in (n + 2)..(n + 5) : s[k] \in HexDigits
    /\ s[n + 6] = "-"
    /\ \A k \in (n + 7)..(n + 6 + m) : s[k] \in HexDigits
    /\ AtEnd(s, n + 6 + m)

\* C13: a requested string is taken as an exact breakpoint ID if and only if
\* it matches the pattern with a third segment of 1 to 8 hex digits, and
\* every other requested string is taken as a location pattern.
C13_IdIffPatternOfSpec ==
  svc = "classified" =>
    \A s \in location_regexp_or_ids :
      /\ s \in ids <=> RefBreakpointId(s)
      /\ s \in patterns <=> s \notin ids

----------------------------------------------------------------------------
(* Claims about ListMatchingBreakpoints, checked under SpecListMatching.   *)

ListMatchingCalled == svc = "list_done"

\* The breakpoints the List call returned.
Listed == RemoteList(server, include_inactive)

\* The IDs of the breakpoints of a list of messages or records.
IdsIn(rs) ==
  {(IF IsMessageDict(rs[k]) THEN GetAttr(rs[k], "id").val ELSE rs[k].id)[1] :
     k \in 1..Len(rs)}

\* The remote Get calls issued.
GetCalls == SelectSeq(calls, LAMBDA c : c[1] = "Get")

\* C14: ListMatchingBreakpoints called with one exact breakpoint ID that
\* is not in the listing issues exactly one Get, for that ID; when the Get
\* succeeds the call returns, and the list returned holds the record of that
\* breakpoint unless the type restriction excludes it; when the Get fails
\* the call fails with its error.
C14_OneGetForMissingId ==
  \A i \in location_regexp_or_ids :
    (/\ ListMatchingCalled
     /\ location_regexp_or_ids = {i}
     /\ RefBreakpointId(i)
     /\ i \notin IdsIn(Listed)) =>
      /\ GetCalls = << <<"Get", i>> >>
      /\ IF Holds(server, i)
           THEN /\ returned.exc = ""
                /\ IdsIn(returned.val) =
                     IF OfType(RemoteGet(server, i), restrict_to_type) THEN {i} ELSE {}
         ELSE returned = HttpError

\* The listed breakpoints the local result holds: the messages, the
\* breakpoints fetched one by one being records.
KeptOfListing ==
  LET Raw(r) == ~IsMessageDict(r) IN SelectSeq(result, Raw)

\* Whether the claim has the breakpoint kept.
ToKeep(bp) ==
  \/ \E s \in location_regexp_or_ids : RefBreakpointId(s) /\ bp.id = <<s>>
  \/ /\ bp.location # <<>>
     /\ \E s \in location_regexp_or_ids :
          /\ ~RefBreakpointId(s)
          /\ Search(s, bp.location[1].path \o <<":">> \o IntToStr(bp.location[1].line))

\* C15: of the breakpoints listed, ListMatchingBreakpoints keeps exactly
\* those whose ID is one of the requested IDs or whose path:line location a
\* requested pattern is found in; one without location is kept only for its
\* ID, and a requested ID is not used as a pattern. When the call returns,
\* the breakpoints returned are the kept ones of the type asked for.
C15_KeepsIdOrLocationMatches ==
  ListMatchingCalled =>
    /\ KeptOfListing = SelectSeq(Listed, ToKeep)
    /\ \A s \in location_regexp_or_ids : RefBreakpointId(s) => s \notin patterns
    /\ returned.exc = "" =>
         LET Typed(bp) == ToKeep(bp) /\ OfType(bp, restrict_to_type)
         IN IdsIn(SelectSeq(Listed, Typed)) \subseteq IdsIn(returned.val)

\* C15 witness: the call returned, and a listed breakpoint whose ID was not
\* asked for is among the breakpoints returned, kept for its location.
C15_Witness ==
  /\ ListMatchingCalled
  /\ returned.exc = ""
  /\ \E k \in 1..Len(Listed) :
       /\ Listed[k].id[1] \notin location_regexp_or_ids
       /\ Listed[k].id[1] \in IdsIn(returned.val)

\* The ID case of C15: a requested ID is found in the path of a listed
\* breakpoint, which is not kept.
C15_IdNotPattern ==
  /\ ListMatchingCalled
  /\ \E k \in 1..Len(Listed) : \E s \in ids :
       /\ Listed[k].location # <<>>
       /\ Search(s, LocationString(Listed[k].location[1]))
       /\ Listed[k].id[1] \notin IdsIn(result)

----------------------------------------------------------------------------
(* Claims about CreateSnapshot and CreateLogpoint, checked under           *)
(* SpecCreate.                                                             *)

\* The number of colons of the string.
Colons(s) == Cardinality({k \in 1..Len(s) : s[k] = ":"})

\* The text after the first colon of a string that has one.
AfterColon(s) ==
  SubSeq(s, (CHOOSE k \in 1..Len(s) : s[k] = ":" /\ \A j \in 1..(k - 1) : s[j] # ":") + 1,
         Len(s))

\* The location is not a path, one colon and an integer line.
MalformedLocation(s) ==
  \/ Colons(s) # 1
  \/ LET digits == AfterColon(s)
         unsigned == IF digits # <<>> /\ digits[1] \in {"+", "-"} THEN Tail(digits)
                     ELSE digits
     IN unsigned = <<>> \/ \E k \in 1..Len(unsigned) : unsigned[k] \notin Digits

\* The log level is given and is not info, warning or error in any case.
MalformedLevel(level) ==
  /\ level # <<>>
  /\ \A name \in LogLevelNames :
       \/ Len(name) # Len(level[1])
       \/ \E k \in 1..Len(name) :
            /\ level[1][k] # name[k]
            /\ \A j \in 1..Len(LowerLetters) :
                 ~(level[1][k] = LowerLetters[j] /\ name[k] = UpperLetters[j])

\* The arguments fail the validation of CreateLogpoint.
InvalidLogpoint ==
  \/ location = <<>>
  \/ log_format_string = <<>>
  \/ MalformedLocation(location)
  \/ MalformedLevel(log_level)
  \/ HasUnclosed(log_format_string)

\* C16: a CreateLogpoint call with an empty location, an empty log format,
\* a malformed location, a log level that is not info, warning or error, or
\* a log format with an unclosed brace, and a CreateSnapshot call with a
\* malformed location, raise without a Set call: no call is issued and the
\* service holds the breakpoints it held.
C16_NoSetWhenValidationFails ==
  [][ ((svc' = "logpoint_done" /\ InvalidLogpoint)
         \/ (svc' = "snapshot_done" /\ MalformedLocation(location))) =>
        (/\ returned'.exc \in {"ValueError", "TypeError"}
         /\ calls' = calls
         /\ server' = server) ]_vars

\* C16 witness: CreateLogpoint raised on a log level alone, all the other
\* arguments being valid, without a call.
C16_Witness ==
  /\ svc = "logpoint_done"
  /\ MalformedLevel(log_level)
  /\ ~MalformedLocation(location)
  /\ log_format_string # <<>>
  /\ ~HasUnclosed(log_format_string)
  /\ returned.exc = "TypeError"
  /\ calls = <<>>

----------------------------------------------------------------------------
(* Claims about WaitForBreakpoint, checked under SpecWait.                 *)

WaitEnded == svc = "wait_done"

\* WaitForBreakpoint returned None.
ReturnedNone == returned = [exc |-> "", val |-> <<>>]

\* WaitForBreakpoint returned a breakpoint.
ReturnedBreakpoint == returned.exc = "" /\ returned.val # <<>>

\* The timeout given has passed.
TimeoutPassed == timeout # <<>> /\ time_passed_ms > MsPerSecond * timeout[1]

\* The last Get returned a breakpoint that is not final.
LastPolledPending == result # <<>> /\ result[1].isFinalState # <<TRUE>>

\* C17: WaitForBreakpoint returns a breakpoint only if the last Get
\* returned that breakpoint with its final-state flag set; when the timeout
\* has passed and the last breakpoint polled was still pending, it returns
\* None and raises nothing.
C17_ReturnsFinalOrNone ==
  WaitEnded =>
    /\ ReturnedBreakpoint =>
         /\ result # <<>>
         /\ result[1].isFinalState = <<TRUE>>
         /\ GetAttr(returned.val, "id").val = result[1].id
         /\ GetAttr(returned.val, "isFinalState").val = <<TRUE>>
    /\ (TimeoutPassed /\ LastPolledPending) => ReturnedNone

\* C17 witness: the breakpoint was polled more than once and returned in
\* its final state.
C17_Witness ==
  /\ WaitEnded
  /\ ReturnedBreakpoint
  /\ Len(calls) >= 2

----------------------------------------------------------------------------
(* Claims about AddTargetInfo, checked under SpecDecorate.                 *)

\* AddTargetInfo was called on the message and returned a _MessageDict.
Decorated == svc = "decorated" /\ returned.exc = ""

\* The fields AddTargetInfo takes from the debuggee.
IdentityFields == {"project_id", "project_number", "target_uniquifier", "target_id"}

\* The message has neither a location nor a log format.
Plain ==
  /\ Falsy("location", result[1].location)
  /\ Falsy("logMessageFormat", result[1].logMessageFormat)

\* C19: the decorated record answers a query by name for every field of the
\* message; every field but location and logMessageFormat has the value it
\* has in the message, and these two have it when the message has none;
\* the names added are the four identity fields, with the values of the
\* debuggee, and consoleViewUrl; a message with neither a location nor a
\* log format is decorated without an error.
C19_DecorationAdditive ==
  /\ (svc = "decorated" /\ Plain) => returned.exc = ""
  /\ Decorated =>
       /\ \A f \in BreakpointFields : GetAttr(returned.val, f).exc = ""
       /\ \A f \in BreakpointFields \ {"location", "logMessageFormat"} :
            GetAttr(returned.val, f).val = result[1][f]
       /\ \A f \in {"location", "logMessageFormat"} :
            Falsy(f, result[1][f]) => GetAttr(returned.val, f).val = result[1][f]
       /\ (DOMAIN returned.val.items) \cup (DOMAIN returned.val.hidden)
            = BreakpointFields \cup IdentityFields \cup {"consoleViewUrl"}
       /\ \A f \in IdentityFields :
            /\ f \notin DOMAIN returned.val.items
            /\ GetAttr(returned.val, f).val = <<Self[f]>>
       /\ "consoleViewUrl" \in DOMAIN returned.val.items

\* A message with neither location nor log format was decorated, and a
\* field without a value is kept hidden.
C19_Witness ==
  /\ Decorated
  /\ Plain
  /\ "isFinalState" \in DOMAIN returned.val.hidden
  /\ "location" \in DOMAIN returned.val.hidden

\* C20: for a message with a non-empty log format, AddTargetInfo fails
\* exactly as MergeLogExpressions does on the message's log format and
\* expressions, and otherwise the logMessageFormat item of the decorated
\* record is what MergeLogExpressions returns, expressions is not among the
\* items, and a query by name gives the expressions of the message.
C20_LogFormatIsMerge ==
  (/\ svc = "decorated"
   /\ pc \in {"merge_returned", "merge_raised"}
   /\ ~Falsy("logMessageFormat", result[1].logMessageFormat))
  => /\ returned.exc = raised
     /\ returned.exc = "" =>
          /\ "logMessageFormat" \in DOMAIN returned.val.items
          /\ returned.val.items["logMessageFormat"] = <<merged>>
          /\ "expressions" \notin DOMAIN returned.val.items
          /\ GetAttr(returned.val, "expressions")
               = [exc |-> "", val |-> result[1].expressions]

\* A log format with a token and its expression was decorated and merged.
C20_Witness ==
  /\ Decorated
  /\ pc = "merge_returned"
  /\ result[1].logMessageFormat = << <<"a", "$", "0">> >>
  /\ result[1].expressions = << << <<"a">> >> >>
  /\ returned.val.items["logMessageFormat"] = << <<"a", "{", "a", "}">> >>
  /\ "expressions" \in DOMAIN returned.val.hidden

----------------------------------------------------------------------------
(* Claims about the class state, checked under SpecSession.                *)

\* The operations that use the client attributes, by the class of the
\* object they are called on.
ClientOperations(cls) ==
  IF cls = "Debugger" THEN {"Debugger", "ListDebuggees"}
  ELSE {"GetBreakpoint", "DeleteBreakpoint", "ListBreakpoints",
        "ListMatchingBreakpoints", "CreateSnapshot", "CreateLogpoint",
        "WaitForBreakpoint"}

\* C21: an operation that uses the client attributes and is called while
\* one of the four is not set raises NoEndpointError and issues no remote
\* call.
C21_UninitializedIsNoEndpoint ==
  [][ \A cls \in {"Debugger", "Debuggee"} :
        (svc' \in ClientOperations(cls) /\ CheckClient(cls) # "")
          => (returned'.exc = "NoEndpointError" /\ calls' = calls) ]_vars

\* The entries of the cache before a step are entries of the cache after
\* it.
Kept(before, after) ==
  \A k \in DOMAIN before : k \in DOMAIN after /\ after[k] = before[k]

\* C22: in every step, each key of each of the two project caches stays
\* with the value it has, and a call that raises leaves both caches as they
\* are.
C22_CachesAppendOnly ==
  [][ /\ Kept(project_id_to_number_cache, project_id_to_number_cache')
      /\ Kept(project_number_to_id_cache, project_number_to_id_cache')
      /\ returned'.exc # "" =>
           UNCHANGED <<project_id_to_number_cache, project_number_to_id_cache>> ]_vars

\* C22 witness: both projects are cached and a later lookup failed.
C22_Witness ==
  /\ DOMAIN project_id_to_number_cache = {<<"p">>, <<"q">>}
  /\ DOMAIN project_number_to_id_cache = {7, 8}
  /\ svc \in {"GetProjectNumber", "GetProjectId"}
  /\ returned.exc = "HttpError"

\* A remote lookup of the identifier was issued.
LookedUp(project_id) ==
  \E i \in 1..Len(calls) : calls[i] = <<"GetProject", project_id>>

\* GetProjectNumber succeeded for the identifier before: it was answered
\* from the cache, whose entries stay, or by the resource manager, which
\* knows the project.
NumberSucceeded(project_id) ==
  \/ project_id \in DOMAIN project_id_to_number_cache
  \/ LookedUp(project_id) /\ ProjectsNamed(project_id) # {}

\* GetProjectId succeeded for the number before.
IdSucceeded(project_number) ==
  \/ project_number \in DOMAIN project_number_to_id_cache
  \/ LookedUp(IntToStr(project_number)) /\ ProjectsNamed(IntToStr(project_number)) # {}

\* C23: a GetProjectNumber call for an identifier it succeeded for before
\* issues no remote call and returns the number of the project, and
\* likewise a GetProjectId call for a number it succeeded for before.
C23_LookupsMemoized ==
  [][ /\ \A project_id \in ProjectIdsAsked :
           (/\ svc' = "GetProjectNumber"
            /\ argument' = <<project_id>>
            /\ NumberSucceeded(project_id))
           => /\ calls' = calls
              /\ returned'.exc = ""
              /\ \E pr \in ProjectsNamed(project_id) :
                   returned'.val = <<pr.projectNumber>>
      /\ \A project_number \in ProjectNumbersAsked :
           (/\ svc' = "GetProjectId"
            /\ argument' = <<project_number>>
            /\ IdSucceeded(project_number))
           => /\ calls' = calls
              /\ returned'.exc = ""
              /\ \E pr \in ProjectsNamed(IntToStr(project_number)) :
                   returned'.val = <<pr.projectId>> ]_vars

----------------------------------------------------------------------------
(* A further claim about the codec, checked under SpecCodec.               *)

\* C24: when SplitLogExpressions has accepted the format string,
\* MergeLogExpressions of what it returned raises nothing.
C24_MergeOfSplitNeverRaises ==
  (entry = "Split" /\ pc \in {"merge_returned", "merge_raised"}) => raised = ""

----------------------------------------------------------------------------
(* A further claim about the resolver, checked under SpecResolver.         *)

\* The debuggees listed in another order.
Reordered(ds, f) == [i \in 1..Len(ds) |-> ds[f[i]]]

\* Two calls fail with the same kind of error or return the debuggee with
\* the same target ID.
SameResolution(a, b) ==
  /\ a.kind = b.kind
  /\ a.kind = "return" =>
       /\ (a.value = <<>>) = (b.value = <<>>)
       /\ a.value # <<>> => a.value[1].target_id = b.value[1].target_id

\* C25: what DefaultDebuggee returned or raised is what it returns or
\* raises for every other order of the same debuggees.
C25_DefaultIndependentOfOrder ==
  rpc = "default_done" =>
    \A f \in Orders(1..Len(debuggees)) :
      SameResolution(outcome, DefaultOf(Reordered(debuggees, f)))

----------------------------------------------------------------------------
(* A claim about WaitForBreakpoint as it runs, checked under SpecWaitLive. *)

\* WaitForBreakpoint was called without a timeout for a breakpoint the
\* service holds.
WaitsUnbounded == timeout = <<>> /\ Holds(server, breakpoint_id)

\* The service has completed the breakpoint while the call is in its loop.
CompletedInTime ==
  /\ svc \in {"poll", "sleep"}
  /\ time_passed_ms < MaxElapsedMs
  /\ RemoteGet(server, breakpoint_id).isFinalState = <<TRUE>>

\* C26: called without a timeout for a breakpoint the service holds,
\* WaitForBreakpoint returns the breakpoint in its final state once the
\* service has completed it, never returns None, and issues no Get after
\* the poll that returned the breakpoint in its final state.
C26_WaitReturnsFinal ==
  /\ (WaitsUnbounded /\ CompletedInTime) ~>
       (/\ WaitEnded
        /\ ReturnedBreakpoint
        /\ GetAttr(returned.val, "isFinalState").val = <<TRUE>>)
  /\ [](WaitsUnbounded => ~(WaitEnded /\ ReturnedNone))
  /\ [][ (WaitsUnbounded /\ result # <<>> /\ result[1].isFinalState = <<TRUE>>)
           => calls' = calls ]_vars

====
